---- MODULE Spec2Model ----
(***************************************************************************)
(* FB2 -> Markdown conversion of the FB2 reader plugin (FB2ReaderPlugin).  *)
(* Strings are sequences of one-character strings, the parsed XML document *)
(* is a tree of element and text nodes, the vault is a map from path to    *)
(* content, and one conversion is a process that is suspended at every     *)
(* await of convertFB2 and of the async methods it calls.                  *)
(***************************************************************************)
EXTENDS Integers, Sequences, FiniteSets, TLC

(***************************************************************************)
(* Strings (JavaScript string operations used by the plugin).              *)
(***************************************************************************)

\* null / undefined: what getAttribute returns for an absent attribute.
Null == <<"null">>

WhiteSpace == {" ", "\n", "\t"}

UpperCase == <<"A", "B", "C", "D", "E", "F", "G", "H", "I", "J", "K", "L", "M",
               "N", "O", "P", "Q", "R", "S", "T", "U", "V", "W", "X", "Y", "Z">>

LowerCase == <<"a", "b", "c", "d", "e", "f", "g", "h", "i", "j", "k", "l", "m",
               "n", "o", "p", "q", "r", "s", "t", "u", "v", "w", "x", "y", "z">>

Digits == <<"0", "1", "2", "3", "4", "5", "6", "7", "8", "9">>

Range(s) == {s[i] : i \in DOMAIN s}

\* The regular expression class \w : letters, digits and underscore.
WordChars == Range(UpperCase) \cup Range(LowerCase) \cup Range(Digits) \cup {"_"}

IndexIn(c, s) == CHOOSE i \in DOMAIN s : s[i] = c

\* String.prototype.toLowerCase, one character.
LowerChar(c) == IF c \in Range(UpperCase) THEN LowerCase[IndexIn(c, UpperCase)] ELSE c

\* String.prototype.toLowerCase.
ToLowerCase(s) == [i \in DOMAIN s |-> LowerChar(s[i])]

\* String.prototype.trim.
Trim(s) ==
    LET keep == {i \in DOMAIN s : s[i] \notin WhiteSpace}
    IN  IF keep = {} THEN <<>>
        ELSE SubSeq(s, CHOOSE i \in keep : \A j \in keep : i <= j,
                       CHOOSE i \in keep : \A j \in keep : j <= i)

\* String.prototype.startsWith.
StartsWith(text, prefix) ==
    Len(text) >= Len(prefix) /\ SubSeq(text, 1, Len(prefix)) = prefix

RECURSIVE Split(_, _)
\* s.split(c) for a one-character c.
Split(s, c) ==
    IF \A i \in DOMAIN s : s[i] # c THEN <<s>>
    ELSE LET first == CHOOSE i \in DOMAIN s : s[i] = c /\ \A j \in 1..(i - 1) : s[j] # c
         IN  <<SubSeq(s, 1, first - 1)>> \o Split(SubSeq(s, first + 1, Len(s)), c)

\* s.replace(/^#/, "")
StripHash(s) == IF Len(s) > 0 /\ s[1] = "#" THEN Tail(s) ELSE s

\* s.includes(c) for a one-character c.
Includes(s, c) == \E i \in DOMAIN s : s[i] = c

\* s.split(c)[0] : the part of s before the first c (all of s without one).
SplitFirst(s, c) ==
    IF Includes(s, c)
    THEN SubSeq(s, 1, (CHOOSE i \in DOMAIN s : s[i] = c /\ \A j \in 1..(i - 1) : s[j] # c) - 1)
    ELSE s

\* s.split(c)[1] : the part between the first and the second c; Null
\* (undefined) when s has no c.
SplitSecond(s, c) ==
    IF Includes(s, c)
    THEN SplitFirst(SubSeq(s, Len(SplitFirst(s, c)) + 2, Len(s)), c)
    ELSE Null

\* s.replace(/\s+/g, " ") : every run of white space becomes one space.
CollapseWs(s) ==
    LET ws(i) == s[i] \in WhiteSpace
        keep == {i \in DOMAIN s : ~ws(i) \/ i = 1 \/ ~ws(i - 1)}
        F[i \in 0..Len(s)] ==
            IF i = 0 THEN <<>>
            ELSE IF i \in keep THEN Append(F[i - 1], IF ws(i) THEN " " ELSE s[i])
            ELSE F[i - 1]
    IN  F[Len(s)]

\* "c".repeat(n)
Repeat(c, n) == [i \in 1..n |-> c]

RECURSIVE IntToStr(_)
\* String(n) for a natural number n.
IntToStr(n) == IF n < 10 THEN <<Digits[n + 1]>>
               ELSE Append(IntToStr(n \div 10), Digits[(n % 10) + 1])

RECURSIVE Join(_, _)
\* Array.prototype.join.
Join(parts, sep) ==
    IF Len(parts) = 0 THEN <<>>
    ELSE IF Len(parts) = 1 THEN parts[1]
    ELSE parts[1] \o sep \o Join(Tail(parts), sep)

RECURSIVE Flat(_)
\* Concatenation of a sequence of sequences.
Flat(ss) == IF Len(ss) = 0 THEN <<>> ELSE ss[1] \o Flat(Tail(ss))

\* Array.prototype.map and Array.prototype.filter on sequences.
Map(s, Op(_)) == [i \in DOMAIN s |-> Op(s[i])]
Filter(s, Test(_)) == SelectSeq(s, Test)

(***************************************************************************)
(* The parsed XML document (DOM).  A node is an element or a text node;    *)
(* attr holds every attribute the plugin reads, Null when absent.          *)
(***************************************************************************)

AttrNames == {"id", "type", "l:href", "xlink:href", "href", "content-type"}

NoAttrs == [a \in AttrNames |-> Null]

\* An element without attributes.
El(tag, kids) == [tag |-> tag, attr |-> NoAttrs, text |-> <<>>, kids |-> kids]

\* An element with one attribute, with two attributes.
ElA(tag, a, v, kids) == [El(tag, kids) EXCEPT !.attr[a] = v]

\* A text node.
Txt(s) == [tag |-> "#text", attr |-> NoAttrs, text |-> s, kids |-> <<>>]

\* The document node of a parsed file.
Document(root) == El("#document", <<root>>)

IsElement(n) == n.tag # "#text"

\* Element.getAttribute
getAttribute(el, a) == el.attr[a]

RECURSIVE textContent(_)
\* Node.textContent : the text of all descendant text nodes, in document order.
textContent(n) ==
    IF n.tag = "#text" THEN n.text
    ELSE Flat([i \in DOMAIN n.kids |-> textContent(n.kids[i])])

RECURSIVE Descendants(_, _)
\* The descendant elements of n in document order, each with its parent's tag
\* (ptag is the tag of n itself).
Descendants(n, ptag) ==
    Flat([i \in DOMAIN n.kids |->
            IF IsElement(n.kids[i])
            THEN <<[el |-> n.kids[i], parent |-> ptag]>> \o Descendants(n.kids[i], n.kids[i].tag)
            ELSE <<>>])

\* querySelectorAll("tag") : every descendant element with that tag.
QueryAll(n, tag) ==
    LET hits == SelectSeq(Descendants(n, n.tag), LAMBDA d : d.el.tag = tag)
    IN  [i \in DOMAIN hits |-> hits[i].el]

\* querySelectorAll("ptag > tag") : descendants with that tag whose parent has tag ptag.
QueryAllChildOf(n, ptag, tag) ==
    LET hits == SelectSeq(Descendants(n, n.tag), LAMBDA d : d.el.tag = tag /\ d.parent = ptag)
    IN  [i \in DOMAIN hits |-> hits[i].el]

\* querySelectorAll(":scope > t") for t in tags : the child elements with one of the tags.
ScopeChildren(n, tags) == SelectSeq(n.kids, LAMBDA k : k.tag \in tags)

\* x?.textContent?.trim() for the first element of a query result; Null when
\* the query found nothing.
FirstTextTrimmed(hits) == IF Len(hits) = 0 THEN Null ELSE Trim(textContent(hits[1]))

\* JavaScript truthiness of a string-or-undefined value.
Truthy(s) == s # Null /\ Len(s) > 0

\* a ?? b
OrElse(a, b) == IF a = Null THEN b ELSE a

(***************************************************************************)
(* JavaScript Map: insertion-ordered, set on a present key replaces the    *)
(* value in place.                                                         *)
(***************************************************************************)

MapHas(m, k) == \E i \in DOMAIN m : m[i].k = k

\* Map.prototype.get; `undefined` stands for the undefined of an absent key.
MapGet(m, k, undefined) ==
    IF MapHas(m, k) THEN m[CHOOSE i \in DOMAIN m : m[i].k = k].v ELSE undefined

MapSet(m, k, v) ==
    IF MapHas(m, k)
    THEN [i \in DOMAIN m |-> IF m[i].k = k THEN [k |-> k, v |-> v] ELSE m[i]]
    ELSE Append(m, [k |-> k, v |-> v])

RECURSIVE MapFrom(_, _)
\* new Map(pairs), and forEach(... map.set ...), onto the map m.
MapFrom(m, pairs) ==
    IF Len(pairs) = 0 THEN m
    ELSE MapFrom(MapSet(m, pairs[1].k, pairs[1].v), Tail(pairs))

(***************************************************************************)
(* Parsing: metadata, footnotes, images, sections.                         *)
(***************************************************************************)

\* The value "notes" of a body's type attribute.
NotesType == <<"n", "o", "t", "e", "s">>

\* One author entry: [first, last].filter(Boolean).join(" ")
AuthorName(authorEl) ==
    LET first == FirstTextTrimmed(QueryAll(authorEl, "first-name"))
        last  == FirstTextTrimmed(QueryAll(authorEl, "last-name"))
    IN  Join(SelectSeq(<<first, last>>, Truthy), <<" ">>)

\* coverpage > image[l:href] : getAttribute("l:href")?.replace(/^#/, "").toLowerCase() ?? ""
CoverHref(titleInfo) ==
    LET imgs == SelectSeq(QueryAllChildOf(titleInfo, "coverpage", "image"),
                          LAMBDA e : getAttribute(e, "l:href") # Null)
    IN  IF Len(imgs) = 0 THEN <<>>
        ELSE ToLowerCase(StripHash(getAttribute(imgs[1], "l:href")))

parseMetaInfo(doc) ==
    LET tis == QueryAllChildOf(doc, "description", "title-info")
    IN  IF Len(tis) = 0
        THEN [title |-> <<>>, authors |-> <<>>, coverHref |-> <<>>]
        ELSE [title     |-> OrElse(FirstTextTrimmed(QueryAll(tis[1], "book-title")), <<>>),
              authors   |-> SelectSeq(Map(QueryAll(tis[1], "author"), AuthorName), Truthy),
              coverHref |-> CoverHref(tis[1])]

\* A variant of NoteText that reads the direct paragraph children only.
NoteTextDirect(ns) ==
    Join(Map(ScopeChildren(ns, {"p"}), LAMBDA p : Trim(textContent(p))), <<" ">>)

\* The text of one footnote section.
NoteText(ns) ==
    Join(Map(QueryAll(ns, "p"), LAMBDA p : Trim(textContent(p))), <<" ">>)

\* body[type="notes"] : the notes bodies of the document.
NotesBodies(doc) ==
    SelectSeq(QueryAll(doc, "body"), LAMBDA b : getAttribute(b, "type") = NotesType)

\* section[id] under the notes body whose id is not empty.
NoteSections(notesBody) ==
    SelectSeq(QueryAll(notesBody, "section"), LAMBDA e : Truthy(getAttribute(e, "id")))

parseFootnotes(doc) ==
    IF Len(NotesBodies(doc)) = 0 THEN <<>>
    ELSE MapFrom(<<>>, Map(NoteSections(NotesBodies(doc)[1]),
                           LAMBDA ns : [k |-> getAttribute(ns, "id"), v |-> NoteText(ns)]))

DefaultContentType == <<"i", "m", "a", "g", "e", "/", "j", "p", "e", "g">>

\* One binary element as an image record.
ImageRecord(binary) ==
    [id          |-> ToLowerCase(OrElse(getAttribute(binary, "id"), <<>>)),
     contentType |-> OrElse(getAttribute(binary, "content-type"), DefaultContentType),
     data        |-> textContent(binary)]

extractImages(doc) ==
    MapFrom(<<>>, Map(QueryAll(doc, "binary"),
                      LAMBDA b : [k |-> ImageRecord(b).id, v |-> ImageRecord(b)]))

\* A variant of SectionTitle that takes the first query that matches, with
\* or without text.
SectionTitleFirstMatch(sectionEl) ==
    LET titles == ScopeChildren(sectionEl, {"title"})
        ps     == Flat(Map(titles, LAMBDA t : ScopeChildren(t, {"p"})))
    IN  IF Len(ps) > 0 THEN Trim(textContent(ps[1]))
        ELSE IF Len(titles) > 0 THEN Trim(textContent(titles[1]))
        ELSE <<>>

\* a || b || "" on the two title queries.
SectionTitle(sectionEl) ==
    LET titles == ScopeChildren(sectionEl, {"title"})
        ps     == Flat(Map(titles, LAMBDA t : ScopeChildren(t, {"p"})))
        a      == FirstTextTrimmed(ps)
        b      == FirstTextTrimmed(titles)
    IN  IF Truthy(a) THEN a ELSE IF Truthy(b) THEN b ELSE <<>>

RECURSIVE parseSectionSameLevel(_, _)
\* A variant of parseSectionRecursive that parses the children at the level
\* of their parent.
parseSectionSameLevel(sectionEl, level) ==
    [title      |-> SectionTitle(sectionEl),
     paragraphs |-> ScopeChildren(sectionEl, {"p", "image"}),
     epigraphs  |-> ScopeChildren(sectionEl, {"epigraph"}),
     level      |-> level,
     children   |-> Map(ScopeChildren(sectionEl, {"section"}),
                        LAMBDA child : parseSectionSameLevel(child, level))]

RECURSIVE parseSectionDescendants(_, _)
\* A variant of parseSectionRecursive that takes the paragraphs and images
\* at any depth of the section.
parseSectionDescendants(sectionEl, level) ==
    [title      |-> SectionTitle(sectionEl),
     paragraphs |-> LET hits == SelectSeq(Descendants(sectionEl, "section"),
                                          LAMBDA d : d.el.tag \in {"p", "image"})
                    IN  [i \in DOMAIN hits |-> hits[i].el],
     epigraphs  |-> ScopeChildren(sectionEl, {"epigraph"}),
     level      |-> level,
     children   |-> Map(ScopeChildren(sectionEl, {"section"}),
                        LAMBDA child : parseSectionDescendants(child, level + 1))]

RECURSIVE parseSectionRecursive(_, _)
parseSectionRecursive(sectionEl, level) ==
    [title      |-> SectionTitle(sectionEl),
     paragraphs |-> ScopeChildren(sectionEl, {"p", "image"}),
     epigraphs  |-> ScopeChildren(sectionEl, {"epigraph"}),
     level      |-> level,
     children   |-> Map(ScopeChildren(sectionEl, {"section"}),
                        LAMBDA child : parseSectionRecursive(child, level + 1))]

\* The bodies that are not the notes body.
MainBodies(doc) ==
    SelectSeq(QueryAll(doc, "body"), LAMBDA b : getAttribute(b, "type") # NotesType)

\* The root sections of every main body, parsed at level 1.
RootSections(doc) ==
    Flat(Map(MainBodies(doc),
             LAMBDA bodyEl : Map(ScopeChildren(bodyEl, {"section"}),
                                 LAMBDA sec : parseSectionRecursive(sec, 1))))

RECURSIVE FlattenSiblingsFirst(_, _)
\* A variant of flattenSections that pushes all the sections of a list before
\* it descends into their children.
FlattenSiblingsFirst(sections, result) ==
    IF Len(sections) = 0 THEN result
    ELSE FlattenSiblingsFirst(Flat(Map(sections, LAMBDA sec : sec.children)), result \o sections)

RECURSIVE flattenSections(_, _)
\* Appends the sections and, after each, its flattened children to result.
flattenSections(sections, result) ==
    IF Len(sections) = 0 THEN result
    ELSE LET sec    == sections[1]
             pushed == Append(result, sec)
             after  == IF Len(sec.children) > 0 THEN flattenSections(sec.children, pushed)
                       ELSE pushed
         IN  flattenSections(Tail(sections), after)

\* doc.querySelector("parsererror")
HasParserError(doc) == Len(QueryAll(doc, "parsererror")) > 0

(***************************************************************************)
(* Rendering.  A line of mdLines is its text together with the statement   *)
(* that pushed it (by) and the flattened section it was pushed for (sec,   *)
(* 0 outside the section loop); by and sec are bookkeeping, the text is    *)
(* what reaches the output.                                                *)
(***************************************************************************)

Line(text, by, sec) == [text |-> text, by |-> by, sec |-> sec]

\* s.replace(/"/g, '\\"')
EscapeQuotes(s) == Flat([i \in DOMAIN s |-> IF s[i] = "\"" THEN <<"\\", "\"">> ELSE <<s[i]>>])

\* `"${a}"`
Quoted(a) == <<"\"">> \o a \o <<"\"">>

addFrontMatter(mdLines, meta) ==
    mdLines
    \o <<Line(<<"-", "-", "-">>, "front", 0)>>
    \o (IF Len(meta.title) > 0
        THEN <<Line(<<"t", "i", "t", "l", "e", ":", " ", "\"">> \o EscapeQuotes(meta.title) \o <<"\"">>, "front", 0)>>
        ELSE <<>>)
    \o (IF Len(meta.authors) > 0
        THEN <<Line(<<"a", "u", "t", "h", "o", "r", "s", ":", " ", "[">> \o Join(Map(meta.authors, Quoted), <<",", " ">>) \o <<"]">>,
                    "front", 0)>>
        ELSE <<>>)
    \o <<Line(<<"-", "-", "-", "\n">>, "front", 0)>>

\* `![[${path}]]`
EmbedText(path) == <<"!", "[", "[">> \o path \o <<"]", "]">>

\* undefined, where an image record is expected.
NoImage == [id |-> Null, contentType |-> Null, data |-> Null]

\* A variant of ImageGet that falls back on the first image of the registry.
ImageGetOrFirst(imageMap, id) ==
    IF MapHas(imageMap, id) THEN MapGet(imageMap, id, NoImage)
    ELSE IF Len(imageMap) > 0 THEN imageMap[1].v
    ELSE NoImage

\* imageMap.get(id)
ImageGet(imageMap, id) == MapGet(imageMap, id, NoImage)

\* A variant of CoverData without the retry on the part before the first dot.
CoverDataNoRetry(meta, imageMap) ==
    IF Len(meta.coverHref) = 0 THEN NoImage ELSE ImageGet(imageMap, meta.coverHref)

\* The image record addCover resolves the cover reference to; NoImage when
\* the reference is empty or resolves to nothing.
CoverData(meta, imageMap) ==
    IF Len(meta.coverHref) = 0 THEN NoImage
    ELSE IF ImageGet(imageMap, meta.coverHref) # NoImage THEN ImageGet(imageMap, meta.coverHref)
    ELSE IF Includes(meta.coverHref, ".") THEN ImageGet(imageMap, SplitFirst(meta.coverHref, "."))
    ELSE NoImage

\* `- [[#${title}|${title}]]`
TocEntry(title) == <<"-", " ", "[", "[", "#">> \o title \o <<"|">> \o title \o <<"]", "]">>

\* The lines addTableOfContents pushes for the sections from index i on.
RECURSIVE TocLines(_, _)
TocLines(sections, i) ==
    IF i > Len(sections) THEN <<>>
    ELSE (IF Len(Trim(sections[i].title)) > 0
          THEN <<Line(TocEntry(Trim(sections[i].title)), "toc", i)>>
          ELSE <<>>)
         \o TocLines(sections, i + 1)

ContentsHeading == <<"#", " ", "C", "o", "n", "t", "e", "n", "t", "s">>

addTableOfContents(mdLines, sections) ==
    mdLines \o <<Line(ContentsHeading, "contents", 0)>> \o TocLines(sections, 1)

MaxHeadingLevel == 6

\* A variant of HeadingLevel without the upper limit.
HeadingLevelUnclamped(sec) == sec.level + 1

\* Math.min(sec.level + 1, 6)
HeadingLevel(sec) == IF sec.level + 1 < MaxHeadingLevel THEN sec.level + 1 ELSE MaxHeadingLevel

\* A variant of HeadingText that writes a heading line for every section.
HeadingTextAlways(sec) ==
    <<"\n">> \o Repeat("#", HeadingLevel(sec)) \o <<" ">> \o Trim(sec.title)

\* title ? `\n${"#".repeat(headingLevel)} ${title}` : "\n"
HeadingText(sec) ==
    IF Len(Trim(sec.title)) > 0
    THEN <<"\n">> \o Repeat("#", HeadingLevel(sec)) \o <<" ">> \o Trim(sec.title)
    ELSE <<"\n">>

\* The href of an `a` element: getAttribute("xlink:href") ?? getAttribute("href")
LinkHref(el) == OrElse(getAttribute(el, "xlink:href"), getAttribute(el, "href"))

\* A variant of InlineText that keeps the "#" of a footnote link in the label.
InlineTextWithHash(child) ==
    IF child.tag = "#text" THEN CollapseWs(child.text)
    ELSE IF child.tag = "a" /\ Truthy(LinkHref(child))
    THEN <<"[", "^">> \o LinkHref(child) \o <<"]">>
    ELSE Trim(textContent(child))

\* What one child node of a paragraph adds to md.
InlineText(child) ==
    LET text == Trim(textContent(child))
        href == LinkHref(child)
    IN  IF child.tag = "#text" THEN CollapseWs(child.text)
        ELSE IF child.tag \in {"strong", "b"} THEN <<"*", "*">> \o text \o <<"*", "*">>
        ELSE IF child.tag \in {"emphasis", "i"} THEN <<"*">> \o text \o <<"*">>
        ELSE IF child.tag = "u" THEN <<"<", "u", ">">> \o text \o <<"<", "/", "u", ">">>
        ELSE IF child.tag \in {"strikethrough", "s"} THEN <<"~", "~">> \o text \o <<"~", "~">>
        ELSE IF child.tag = "sub" THEN <<"<", "s", "u", "b", ">">> \o text \o <<"<", "/", "s", "u", "b", ">">>
        ELSE IF child.tag = "sup" THEN <<"<", "s", "u", "p", ">">> \o text \o <<"<", "/", "s", "u", "p", ">">>
        ELSE IF child.tag = "a"
             THEN IF href # Null /\ Len(href) > 0 /\ href[1] = "#"
                  THEN <<"[", "^">> \o Tail(href) \o <<"]">>
                  ELSE IF Truthy(href)
                  THEN <<"[">> \o text \o <<"]", "(">> \o href \o <<")">>
                  ELSE text
        ELSE text

processFB2Paragraph(pEl) == Trim(Flat(Map(pEl.kids, InlineText)))

\* The lines pushed for the epigraphs of one section.
EpigraphLines(sec, si) ==
    Flat(Map(sec.epigraphs,
             LAMBDA epigraphEl :
                 <<Line(<<">">>, "epigraph", si)>>
                 \o Map(QueryAll(epigraphEl, "p"),
                        LAMBDA p : Line(<<">", " ">> \o processFB2Paragraph(p), "epigraph", si))
                 \o <<Line(<<">">>, "epigraph", si)>>))

\* A variant of SectionOpening that pushes the epigraphs before the heading.
SectionOpeningEpigraphsFirst(sec, si) ==
    EpigraphLines(sec, si) \o <<Line(HeadingText(sec), "heading", si)>>

\* The lines pushed on entering section si: heading or separator, then epigraphs.
SectionOpening(sec, si) == <<Line(HeadingText(sec), "heading", si)>> \o EpigraphLines(sec, si)

\* node.getAttribute("l:href")?.replace(/^#/, "").toLowerCase()
SectionImageHref(node) ==
    IF getAttribute(node, "l:href") = Null THEN Null
    ELSE ToLowerCase(StripHash(getAttribute(node, "l:href")))

\* The image record an image item of a section is saved from; NoImage when
\* the item is skipped (no href, unresolved, or empty data).
SectionImageData(node, imageMap) ==
    LET href == SectionImageHref(node)
    IN  IF ~Truthy(href) THEN NoImage
        ELSE IF ImageGet(imageMap, href) = NoImage THEN NoImage
        ELSE IF Len(Trim(ImageGet(imageMap, href).data)) = 0 THEN NoImage
        ELSE ImageGet(imageMap, href)

\* The line pushed for a body item that is not an image.
ItemText(node) ==
    IF node.tag = "p" THEN processFB2Paragraph(node) ELSE Trim(textContent(node))

(***************************************************************************)
(* Image materialisation and output naming.                                *)
(***************************************************************************)

Base64Alphabet == <<"A", "B", "C", "D", "E", "F", "G", "H", "I", "J", "K", "L", "M", "N", "O", "P", "Q", "R", "S", "T", "U", "V", "W", "X", "Y", "Z", "a", "b", "c", "d", "e", "f", "g", "h", "i", "j", "k", "l", "m", "n", "o", "p", "q", "r", "s", "t", "u", "v", "w", "x", "y", "z", "0", "1", "2", "3", "4", "5", "6", "7", "8", "9", "+", "/">>

\* The ASCII white space atob ignores.
AsciiWhiteSpace == {" ", "\n", "\t", "\r", "\f"}

\* The decoding failed (atob throws InvalidCharacterError).
DecodeError == <<-1>>

RECURSIVE DecodeSextets(_)
\* The bytes of a sequence of 6-bit values: three per four values, one for a
\* trailing pair, two for a trailing triple (the spare bits are dropped).
DecodeSextets(v) ==
    IF Len(v) >= 4
    THEN LET n == ((v[1] * 64 + v[2]) * 64 + v[3]) * 64 + v[4]
         IN  <<n \div 65536, (n \div 256) % 256, n % 256>> \o DecodeSextets(SubSeq(v, 5, Len(v)))
    ELSE IF Len(v) = 3
    THEN LET n == ((v[1] * 64 + v[2]) * 64 + v[3]) \div 4 IN <<n \div 256, n % 256>>
    ELSE IF Len(v) = 2
    THEN <<(v[1] * 64 + v[2]) \div 16>>
    ELSE <<>>

\* atob followed by the charCodeAt loop: the bytes of a base64 string, or
\* DecodeError.
base64ToUint8Array(base64) ==
    LET clean == SelectSeq(base64, LAMBDA ch : ch \notin AsciiWhiteSpace)
        n     == Len(clean)
        pad   == IF n % 4 = 0 /\ n > 0 /\ clean[n] = "="
                 THEN (IF clean[n - 1] = "=" THEN 2 ELSE 1)
                 ELSE 0
        body  == SubSeq(clean, 1, n - pad)
    IN  IF Len(body) % 4 = 1 \/ \E i \in DOMAIN body : body[i] \notin Range(Base64Alphabet)
        THEN DecodeError
        ELSE DecodeSextets([i \in DOMAIN body |-> IndexIn(body[i], Base64Alphabet) - 1])

\* image.contentType.split("/")[1] ?? "jpg"
Extension(image) == OrElse(SplitSecond(image.contentType, "/"), <<"j", "p", "g">>)

\* image.id.replace(/[^\w\d-_]/g, "_") || "image"
BaseFileName(image) ==
    LET safe == [i \in DOMAIN image.id |->
                    IF image.id[i] \in WordChars \cup {"-"} THEN image.id[i] ELSE "_"]
    IN  IF Len(safe) > 0 THEN safe ELSE <<"i", "m", "a", "g", "e">>

\* `${imageFolderPath}/${bookName}`
ImageFolderPath(imageFolderPath, bookName) == imageFolderPath \o <<"/">> \o bookName

\* The candidate of the while loop after `counter` renamings (0: the first name).
ImageCandidate(folderPath, image, counter) ==
    folderPath \o <<"/">> \o BaseFileName(image)
    \o (IF counter = 0 THEN <<>> ELSE <<"_">> \o IntToStr(counter))
    \o <<".">> \o Extension(image)

\* A variant of ImageLoop that takes the candidate without looking it up.
ImageLoopFirst(paths, folderPath, image, counter) == ImageCandidate(folderPath, image, counter)

RECURSIVE ImageLoopByTwo(_, _, _, _)
\* A variant of ImageLoop whose counter goes up by two.
ImageLoopByTwo(paths, folderPath, image, counter) ==
    IF ImageCandidate(folderPath, image, counter) \in paths
    THEN ImageLoopByTwo(paths, folderPath, image, counter + 2)
    ELSE ImageCandidate(folderPath, image, counter)

RECURSIVE ImageLoop(_, _, _, _)
\* while (getAbstractFileByPath(filePath)) ... : the first candidate, from
\* `counter` on, that is not a path of the vault.
ImageLoop(paths, folderPath, image, counter) ==
    IF ImageCandidate(folderPath, image, counter) \in paths
    THEN ImageLoop(paths, folderPath, image, counter + 1)
    ELSE ImageCandidate(folderPath, image, counter)

\* The character U+2013 (en dash), one character of a string.
EnDash == "en-dash"

\* baseName.replace(/[\\\/:*?"<>|]/g, "")
StripIllegal(s) ==
    SelectSeq(s, LAMBDA ch : ch \notin {"\\", "/", ":", "*", "?", "\"", "<", ">", "|"})

\* A variant of getFormattedMDFileName that names the output after the source.
getSourceFileName(meta, fallbackName) == StripIllegal(fallbackName)

getFormattedMDFileName(meta, fallbackName) ==
    LET n == Len(meta.authors)
        authorsPart ==
            IF n = 1 THEN meta.authors[1]
            ELSE IF n >= 2
            THEN Join(SubSeq(meta.authors, 1, 2), <<",", " ">>)
                 \o (IF n > 2 THEN <<" ", "e", "t", " ", "a", "l", ".">> ELSE <<>>)
            ELSE <<>>
        baseName ==
            IF Len(meta.title) > 0 \/ n > 0
            THEN (IF Len(authorsPart) > 0 THEN authorsPart \o <<" ", EnDash, " ">> \o meta.title
                  ELSE meta.title)
            ELSE fallbackName
    IN  StripIllegal(baseName)

\* The candidate of getAvailableMdPath after `counter` renamings.
MdCandidate(folder, baseName, counter) ==
    (IF Len(folder) > 0 THEN folder \o <<"/">> ELSE <<>>)
    \o baseName
    \o (IF counter = 0 THEN <<>> ELSE <<"_">> \o IntToStr(counter))
    \o <<".", "m", "d">>

\* A variant of MdLoop that takes the first candidate, free or not.
MdLoopFirst(paths, folder, baseName, counter) == MdCandidate(folder, baseName, counter)

RECURSIVE MdLoop(_, _, _, _)
MdLoop(paths, folder, baseName, counter) ==
    IF MdCandidate(folder, baseName, counter) \in paths
    THEN MdLoop(paths, folder, baseName, counter + 1)
    ELSE MdCandidate(folder, baseName, counter)

FootnotesHeading == <<"\n", "#", "#", " ", "F", "o", "o", "t", "n", "o", "t", "e", "s", "\n">>

\* `[^${fnId}]: ${fnText}`
FootnoteDefinition(fnId, fnText) == <<"[", "^">> \o fnId \o <<"]", ":", " ">> \o fnText

\* A variant of FootnoteLines that pushes the heading for an empty table too.
FootnoteLinesAlways(table) ==
    <<Line(FootnotesHeading, "fnhead", 0)>>
    \o Map(table, LAMBDA e : Line(FootnoteDefinition(e.k, e.v), "fn", 0))

\* The footnote block convertFB2 pushes from this.footnotes.
FootnoteLines(footnotes) ==
    IF Len(footnotes) > 0
    THEN <<Line(FootnotesHeading, "fnhead", 0)>>
         \o Map(footnotes, LAMBDA e : Line(FootnoteDefinition(e.k, e.v), "fn", 0))
    ELSE <<>>

\* mdLines.join("\n\n")
FinalText(mdLines) == Join(Map(mdLines, LAMBDA l : l.text), <<"\n", "\n">>)

(***************************************************************************)
(* Source documents.  A file of the vault is its path, its base name and a *)
(* description of its FB2 content; Content builds the parsed document that *)
(* DOMParser yields for it.                                                *)
(***************************************************************************)

\* <p>text</p>
P(text) == El("p", <<Txt(text)>>)

RECURSIVE Sum(_)
Sum(path) == IF Len(path) = 0 THEN 0 ELSE path[1] + Sum(Tail(path))

\* The label of the section at `path` (the child indices from the body down).
PathLabel(path) == [i \in DOMAIN path |-> Digits[path[i] + 1]]

\* The title children of the section at `path`: a title holding a paragraph,
\* a title holding bare text, no title at all, or a title of white space.
TitleOf(path) ==
    CASE Sum(path) % 4 = 1 -> <<El("title", <<P(<<" ">> \o PathLabel(path) \o <<"\n">>)>>)>>
      [] Sum(path) % 4 = 2 -> <<El("title", <<Txt(<<"T">> \o PathLabel(path))>>)>>
      [] Sum(path) % 4 = 3 -> <<>>
      [] OTHER             -> <<El("title", <<P(<<" ", "\n">>)>>)>>

\* The epigraph children of the section at `path`.
EpigraphOf(path) ==
    IF Sum(path) % 2 = 1
    THEN <<El("epigraph", <<P(<<"e">> \o PathLabel(path)), El("text-author", <<Txt(<<"a">>)>>)>>)>>
    ELSE <<>>

RECURSIVE SectionEl(_, _, _)
\* The section element at `path` whose child sections have the shapes `kids`
\* (a shape is the sequence of the shapes of its child sections); `items`
\* are put after its own paragraph.
SectionEl(kids, path, items) ==
    El("section",
       TitleOf(path) \o EpigraphOf(path) \o <<P(<<"p">> \o PathLabel(path))>> \o items
       \o [i \in DOMAIN kids |-> SectionEl(kids[i], Append(path, i), <<>>)])

\* The id attribute of the note section at `path`: its own id, an id shared
\* with other notes, none, or an empty one.
NoteIdOf(path) ==
    CASE Sum(path) % 4 = 1 -> <<"n">> \o PathLabel(path)
      [] Sum(path) % 4 = 2 -> <<"d">>
      [] Sum(path) % 4 = 3 -> Null
      [] OTHER             -> <<>>

RECURSIVE NoteEl(_, _, _)
\* The note section at `path` of the book marked `mark`: a paragraph of its
\* own, for some a cite with a paragraph in it, then its nested sections.
NoteEl(kids, path, mark) ==
    [El("section",
        <<P(<<" ", "t">> \o PathLabel(path) \o mark)>>
        \o (IF Sum(path) % 2 = 0 THEN <<El("cite", <<P(<<"c">> \o PathLabel(path))>>)>> ELSE <<>>)
        \o [i \in DOMAIN kids |-> NoteEl(kids[i], Append(path, i), mark)])
     EXCEPT !.attr["id"] = NoteIdOf(path)]

\* <binary id=.. content-type=..>data</binary>
BinaryEl(b) ==
    [El("binary", IF Len(b.data) > 0 THEN <<Txt(b.data)>> ELSE <<>>)
     EXCEPT !.attr["id"] = b.id, !.attr["content-type"] = b.ctype]

\* <author><first-name>..</first-name><last-name>..</last-name></author>
AuthorEl(a) ==
    El("author",
       (IF a[1] # Null THEN <<El("first-name", <<Txt(a[1])>>)>> ELSE <<>>)
       \o (IF a[2] # Null THEN <<El("last-name", <<Txt(a[2])>>)>> ELSE <<>>))

\* The description element of a book, when it has any metadata.
DescriptionEl(d) ==
    IF d.title = Null /\ Len(d.authors) = 0 /\ d.cover = Null THEN <<>>
    ELSE <<El("description", <<El("title-info",
             (IF d.title # Null THEN <<El("book-title", <<Txt(d.title)>>)>> ELSE <<>>)
             \o Map(d.authors, AuthorEl)
             \o (IF d.cover # Null
                 THEN <<El("coverpage", <<ElA("image", "l:href", d.cover, <<>>)>>)>>
                 ELSE <<>>))>>)>>

\* The image items of the first root section.
ImageItems(d) == Map(d.refs, LAMBDA r : ElA("image", "l:href", r, <<>>))

\* The book leaves the titles of its first root section as TitleOf makes them.
NoTitles == <<<<[kind |-> "none", text |-> <<>>]>>>>

\* <p>see <a attr="href">text</a>.</p>
LinkParagraph(l) ==
    El("p", <<Txt(<<"s", "e", "e", " ">>), ElA("a", l.attr, l.href, <<Txt(l.text)>>), Txt(<<".">>)>>)

\* The paragraphs with a link of the first root section.
LinkItems(d) == Map(d.links, LinkParagraph)

\* One child of a title element: a paragraph, a text node, or a paragraph
\* inside a strong element.
TitlePartEl(part) ==
    CASE part.kind = "p"    -> P(part.text)
      [] part.kind = "text" -> Txt(part.text)
      [] OTHER              -> El("strong", <<P(part.text)>>)

\* The title elements of a section given as the parts of each.
TitleEls(titles) == [t \in DOMAIN titles |-> El("title", Map(titles[t], TitlePartEl))]

\* An item that stands after the nested sections: a paragraph or an image.
TailItemEl(item) ==
    IF item.kind = "p" THEN P(item.text) ELSE ElA("image", "l:href", item.text, <<>>)

\* The first root section with the items d.tail after its nested sections.
WithTail(d, sectionEl) == [sectionEl EXCEPT !.kids = @ \o Map(d.tail, TailItemEl)]

\* The first root section with the title elements d.titles in place of its own.
WithTitles(d, sectionEl) ==
    IF d.titles = NoTitles THEN sectionEl
    ELSE [sectionEl EXCEPT !.kids = TitleEls(d.titles)
                                    \o SubSeq(@, Len(TitleOf(<<1>>)) + 1, Len(@))]

\* The main bodies of a book: one body with its root sections, or two
\* bodies, the first with the first d.split root sections.
MainBodyEl(d) ==
    LET roots == [i \in DOMAIN d.shape |->
                     IF i = 1
                     THEN WithTitles(d, WithTail(d, SectionEl(d.shape[i], <<i>>,
                                                             LinkItems(d) \o ImageItems(d))))
                     ELSE SectionEl(d.shape[i], <<i>>, <<>>)]
    IN  IF ~d.main THEN <<>>
        ELSE IF d.split = 0 THEN <<El("body", roots)>>
        ELSE <<El("body", SubSeq(roots, 1, d.split)),
               El("body", SubSeq(roots, d.split + 1, Len(roots)))>>

\* The notes body of a book, when it has one: its sections are labelled by
\* their paths under noteRoot.
NotesBodyEl(d) ==
    IF ~d.hasNotes THEN <<>>
    ELSE <<ElA("body", "type", NotesType,
               [i \in DOMAIN d.notes |-> NoteEl(d.notes[i], Append(d.noteRoot, i), d.mark)])>>

\* The document DOMParser returns for a file: a parsererror document for a
\* malformed one.
Content(d) ==
    IF d.malformed THEN Document(El("parsererror", <<Txt(<<"x">>)>>))
    ELSE Document(El("FictionBook",
                     DescriptionEl(d) \o MainBodyEl(d) \o NotesBodyEl(d) \o Map(d.bins, BinaryEl)))

\* A book without metadata, images, links or notes, with one section in one
\* main body.
PlainBook ==
    [malformed |-> FALSE, title |-> Null, authors |-> <<>>, cover |-> Null, main |-> TRUE,
     shape |-> <<<<>>>>, refs |-> <<>>, hasNotes |-> FALSE, notes |-> <<>>, noteRoot |-> <<>>,
     mark |-> <<>>, bins |-> <<>>, links |-> <<>>, split |-> 0, titles |-> NoTitles,
     tail |-> <<>>]

\* TFile: the path of a file and its base name.
File(dir, basename, d) ==
    [path |-> dir \o <<"/">> \o basename \o <<".", "f", "b", "2">>, basename |-> basename, doc |-> d]

(***************************************************************************)
(* The plugin and the vault.                                               *)
(***************************************************************************)

VARIABLES
    vault,      \* the vault: path -> [kind, data] of every folder and file created
    footnotes,  \* the plugin's field this.footnotes
    settings,   \* the plugin's field this.settings
    conv,       \* the convertFB2 calls: conv[c] is the frame of call c
    editor,     \* the editor of the active view: its text and its file
    quote       \* the frame of the handleSaveQuote call

vars == <<vault, footnotes, settings, conv, editor, quote>>

\* DEFAULT_SETTINGS.imageFolderPath
DefaultImageFolderPath == <<"f", "b", "2", "-", "i", "m", "a", "g", "e", "s">>

\* getAbstractFileByPath(path) is not null.
Exists(paths, path) == path \in paths

\* No storage call awaited.
NoIo == [op |-> "none", path |-> <<>>, data |-> <<>>, st |-> "none"]

\* A storage call that was issued and has not taken effect yet.
Pending(op, path, data) == [op |-> op, path |-> path, data |-> data, st |-> "pending"]

\* The frame of a call that has not started.  `calls` lists the storage
\* calls the frame has made, `settled` counts the create calls among them that
\* the vault has answered, `error` names what the call threw: the storage
\* operation that was rejected, or atob.
IdleFrame ==
    [pc |-> "idle", file |-> File(<<>>, <<>>, PlainBook),
     meta |-> [title |-> <<>>, authors |-> <<>>, coverHref |-> <<>>],
     imageMap |-> <<>>, flatSections |-> <<>>, mdLines |-> <<>>,
     si |-> 0, ii |-> 0, image |-> NoImage, ret |-> "none",
     filePath |-> <<>>, outputFilePath |-> <<>>,
     io |-> NoIo, calls |-> <<>>, settled |-> 0, error |-> "none", notices |-> <<>>]

\* A record of one storage call: the operation, its path, whether the path
\* was in the vault when the call was made, and the image it was made for.
Call(op, path, paths, img) == [op |-> op, path |-> path, existed |-> Exists(paths, path), img |-> img]

RECURSIVE RunSections(_, _, _, _, _)
\* The loop of addSections from item ii of section si (ii = 0: the section
\* is entered), up to the next image to save or to the end of the sections.
RunSections(mdLines, sections, imageMap, si, ii) ==
    IF si > Len(sections)
    THEN [mdLines |-> mdLines, si |-> si, ii |-> 0, image |-> NoImage]
    ELSE IF ii = 0
    THEN RunSections(mdLines \o SectionOpening(sections[si], si), sections, imageMap, si, 1)
    ELSE IF ii > Len(sections[si].paragraphs)
    THEN RunSections(mdLines, sections, imageMap, si + 1, 0)
    ELSE LET node == sections[si].paragraphs[ii]
         IN  IF node.tag = "image"
             THEN IF SectionImageData(node, imageMap) = NoImage
                  THEN RunSections(mdLines, sections, imageMap, si, ii + 1)
                  ELSE [mdLines |-> mdLines, si |-> si, ii |-> ii,
                        image |-> SectionImageData(node, imageMap)]
             ELSE RunSections(Append(mdLines, Line(ItemText(node), "item", si)),
                              sections, imageMap, si, ii + 1)

\* ensureFolderExists(path) up to its await: the call of createFolder when
\* the folder is not in the vault.
EnsureFolderIo(paths, path) ==
    IF Exists(paths, path) THEN NoIo ELSE Pending("createFolder", path, <<>>)

\* The frame after saveImageToVault(bookName, image) is entered for `ret`
\* and has run up to its first await.
EnterSave(f, image, ret, paths) ==
    LET folderPath == ImageFolderPath(settings.imageFolderPath, f.file.basename)
        io         == EnsureFolderIo(paths, folderPath)
    IN  [f EXCEPT !.pc = "ensureImageFolder", !.image = image, !.ret = ret, !.io = io,
                  !.calls = IF io.st = "pending"
                            THEN Append(@, Call("createFolder", folderPath, paths, image))
                            ELSE @]

\* The frame after addSections has run from (si, ii) to its next await.
ContinueSections(f, mdLines, si, ii, paths) ==
    LET r == RunSections(mdLines, f.flatSections, f.imageMap, si, ii)
        g == [f EXCEPT !.mdLines = r.mdLines, !.si = r.si, !.ii = r.ii]
    IN  IF r.image = NoImage
        THEN [g EXCEPT !.pc = "addSectionsReturned", !.image = NoImage]
        ELSE EnterSave(g, r.image, "section", paths)

\* convertFB2 is called for file: it awaits vault.read.
Start(c, file) ==
    /\ conv[c].pc = "idle"
    /\ conv' = [conv EXCEPT ![c] = [@ EXCEPT !.pc = "read", !.file = file,
                                            !.calls = Append(@, Call("read", file.path, {file.path}, NoImage))]]
    /\ UNCHANGED <<vault, footnotes, settings, editor, quote>>

\* As Start, when no other call is between its start and its end.
StartAlone(c, file) ==
    /\ \A o \in DOMAIN conv : conv[o].pc \in {"idle", "done", "failed"}
    /\ Start(c, file)

\* A variant of HasMainBody that takes every document to have a main body.
HasMainBodyAlways(doc) == TRUE

\* mainBodies.length > 0
HasMainBody(doc) == Len(MainBodies(doc)) > 0

\* vault.read has resolved: parsing, front matter, and addCover up to its
\* first await.
ReadDone(c) ==
    /\ conv[c].pc = "read"
    /\ LET f   == conv[c]
           doc == Content(f.file.doc)
           g   == [f EXCEPT !.meta = parseMetaInfo(doc), !.imageMap = extractImages(doc)]
           h   == [g EXCEPT !.flatSections = flattenSections(RootSections(doc), <<>>),
                            !.mdLines = addFrontMatter(<<>>, g.meta)]
       IN  IF HasParserError(doc)
           THEN /\ conv' = [conv EXCEPT ![c] = [f EXCEPT !.pc = "done",
                                                         !.notices = Append(@, "Error parsing FB2")]]
                /\ UNCHANGED footnotes
           ELSE /\ footnotes' = parseFootnotes(doc)
                /\ conv' = [conv EXCEPT ![c] =
                      IF ~HasMainBody(doc)
                      THEN [g EXCEPT !.pc = "done",
                                     !.notices = Append(@, "No main <body> found in FB2.")]
                      ELSE IF CoverData(h.meta, h.imageMap) = NoImage
                      THEN [h EXCEPT !.pc = "addCoverReturned"]
                      ELSE EnterSave(h, CoverData(h.meta, h.imageMap), "cover", DOMAIN vault)]
    /\ UNCHANGED <<vault, settings, editor, quote>>

\* The kind of vault entry a create call makes.
KindOf(op) ==
    CASE op = "createFolder" -> "folder"
      [] op = "createBinary" -> "binary"
      [] OTHER               -> "text"

\* The vault performs the create call that call c awaits: the entry appears,
\* or the call is rejected because the path is taken.
StorageApply(c) ==
    /\ conv[c].io.st = "pending"
    /\ IF conv[c].io.path \in DOMAIN vault
       THEN /\ conv' = [conv EXCEPT ![c].io.st = "rejected", ![c].settled = @ + 1]
            /\ UNCHANGED vault
       ELSE /\ conv' = [conv EXCEPT ![c].io.st = "ok", ![c].settled = @ + 1]
            /\ vault' = [p \in DOMAIN vault \cup {conv[c].io.path} |->
                            IF p = conv[c].io.path
                            THEN [kind |-> KindOf(conv[c].io.op), data |-> conv[c].io.data]
                            ELSE vault[p]]
    /\ UNCHANGED <<footnotes, settings, editor, quote>>

\* A variant of Settled for a call that is not awaited.
NotAwaited(f) == TRUE

\* The awaited storage call of frame f has settled.
Settled(f) == f.io.st # "pending"

\* A variant of Thrown in which the error is caught and the conversion goes
\* on to its output.
ThrownAndCaught(f) ==
    [f EXCEPT !.pc = "addSectionsReturned", !.io = NoIo,
              !.error = IF f.io.st = "rejected" THEN f.io.op ELSE "atob"]

\* A rejected await throws: convertFB2 catches nothing after parsing.
Thrown(f) ==
    [f EXCEPT !.pc = "failed", !.io = NoIo,
              !.error = IF f.io.st = "rejected" THEN f.io.op ELSE "atob"]

\* saveImageToVault after `await this.ensureFolderExists(folderPath)`: the
\* free file name, the decoding, and the call of createBinary.
AfterEnsureImageFolder(c) ==
    /\ conv[c].pc = "ensureImageFolder"
    /\ Settled(conv[c])
    /\ LET f          == conv[c]
           folderPath == ImageFolderPath(settings.imageFolderPath, f.file.basename)
           filePath   == ImageLoop(DOMAIN vault, folderPath, f.image, 0)
           binaryData == base64ToUint8Array(Trim(f.image.data))
       IN  conv' = [conv EXCEPT ![c] =
              IF f.io.st = "rejected" \/ binaryData = DecodeError
              THEN Thrown(f)
              ELSE [f EXCEPT !.pc = "createBinary", !.filePath = filePath,
                             !.io = Pending("createBinary", filePath, binaryData),
                             !.calls = Append(@, Call("createBinary", filePath, DOMAIN vault,
                                                      f.image))]]
    /\ UNCHANGED <<vault, footnotes, settings, editor, quote>>

\* saveImageToVault after `await this.app.vault.createBinary`: return filePath.
AfterCreateBinary(c) ==
    /\ conv[c].pc = "createBinary"
    /\ Settled(conv[c])
    /\ conv' = [conv EXCEPT ![c] =
          IF @.io.st = "rejected" THEN Thrown(@)
          ELSE [@ EXCEPT !.pc = "saveImageReturned", !.io = NoIo]]
    /\ UNCHANGED <<vault, footnotes, settings, editor, quote>>

\* After `await this.saveImageToVault`: the embed line; addCover returns, or
\* addSections goes on with the next item.
AfterSaveImage(c) ==
    /\ conv[c].pc = "saveImageReturned"
    /\ LET f == conv[c]
       IN  conv' = [conv EXCEPT ![c] =
              IF f.ret = "cover"
              THEN [f EXCEPT !.pc = "addCoverReturned", !.image = NoImage,
                             !.mdLines = Append(@, Line(EmbedText(f.filePath), "cover", 0))]
              ELSE ContinueSections(f, Append(f.mdLines, Line(EmbedText(f.filePath), "image", f.si)),
                                    f.si, f.ii + 1, DOMAIN vault)]
    /\ UNCHANGED <<vault, footnotes, settings, editor, quote>>

\* convertFB2 after `await this.addCover`: the table of contents, and
\* addSections up to its first await.
AfterAddCover(c) ==
    /\ conv[c].pc = "addCoverReturned"
    /\ LET f == conv[c]
       IN  conv' = [conv EXCEPT ![c] =
              ContinueSections(f, addTableOfContents(f.mdLines, f.flatSections), 1, 0,
                               DOMAIN vault)]
    /\ UNCHANGED <<vault, footnotes, settings, editor, quote>>

\* this.settings.outputFolderPath.trim()
OutputFolder == Trim(settings.outputFolderPath)

\* convertFB2 after `await this.addSections`: the footnote block from
\* this.footnotes, the output name, and getAvailableMdPath up to its await
\* or its return.
AfterAddSections(c) ==
    /\ conv[c].pc = "addSectionsReturned"
    /\ LET f        == conv[c]
           mdLines  == f.mdLines \o FootnoteLines(footnotes)
           baseName == getFormattedMDFileName(f.meta, f.file.basename)
           io       == EnsureFolderIo(DOMAIN vault, OutputFolder)
       IN  conv' = [conv EXCEPT ![c] =
              IF Len(OutputFolder) > 0
              THEN [f EXCEPT !.pc = "ensureOutputFolder", !.mdLines = mdLines, !.io = io,
                             !.calls = IF io.st = "pending"
                                       THEN Append(@, Call("createFolder", OutputFolder,
                                                           DOMAIN vault, NoImage))
                                       ELSE @]
              ELSE [f EXCEPT !.pc = "mdPathReturned", !.mdLines = mdLines,
                             !.outputFilePath = MdLoop(DOMAIN vault, OutputFolder, baseName, 0)]]
    /\ UNCHANGED <<vault, footnotes, settings, editor, quote>>

\* getAvailableMdPath after `await this.ensureFolderExists(folder)`: the
\* free output path.
AfterEnsureOutputFolder(c) ==
    /\ conv[c].pc = "ensureOutputFolder"
    /\ Settled(conv[c])
    /\ LET f        == conv[c]
           baseName == getFormattedMDFileName(f.meta, f.file.basename)
       IN  conv' = [conv EXCEPT ![c] =
              IF f.io.st = "rejected" THEN Thrown(f)
              ELSE [f EXCEPT !.pc = "mdPathReturned", !.io = NoIo,
                             !.outputFilePath = MdLoop(DOMAIN vault, OutputFolder, baseName, 0)]]
    /\ UNCHANGED <<vault, footnotes, settings, editor, quote>>

\* convertFB2 after `await this.getAvailableMdPath`: the text, and the call
\* of vault.create.
AfterMdPath(c) ==
    /\ conv[c].pc = "mdPathReturned"
    /\ LET f == conv[c]
       IN  conv' = [conv EXCEPT ![c] =
              [f EXCEPT !.pc = "create",
                        !.io = Pending("create", f.outputFilePath, FinalText(f.mdLines)),
                        !.calls = Append(@, Call("create", f.outputFilePath, DOMAIN vault, NoImage))]]
    /\ UNCHANGED <<vault, footnotes, settings, editor, quote>>

\* convertFB2 after `await this.app.vault.create`: the file is opened and
\* the notice shown.
AfterCreate(c) ==
    /\ conv[c].pc = "create"
    /\ Settled(conv[c])
    /\ conv' = [conv EXCEPT ![c] =
          IF @.io.st = "rejected" THEN Thrown(@)
          ELSE [@ EXCEPT !.pc = "done", !.io = NoIo, !.notices = Append(@, "FB2 converted")]]
    /\ UNCHANGED <<vault, footnotes, settings, editor, quote>>

\* One step of one of the calls after its start.
Steps ==
    \/ \E c \in DOMAIN conv : ReadDone(c)
    \/ \E c \in DOMAIN conv : StorageApply(c)
    \/ \E c \in DOMAIN conv : AfterEnsureImageFolder(c)
    \/ \E c \in DOMAIN conv : AfterCreateBinary(c)
    \/ \E c \in DOMAIN conv : AfterSaveImage(c)
    \/ \E c \in DOMAIN conv : AfterAddCover(c)
    \/ \E c \in DOMAIN conv : AfterAddSections(c)
    \/ \E c \in DOMAIN conv : AfterEnsureOutputFolder(c)
    \/ \E c \in DOMAIN conv : AfterMdPath(c)
    \/ \E c \in DOMAIN conv : AfterCreate(c)

(***************************************************************************)
(* Quote handling: handleSaveQuote on the editor of the active view.       *)
(***************************************************************************)

\* DEFAULT_SETTINGS.quotesFolderPath
DefaultQuotesFolderPath == <<"q", "u", "o", "t", "e", "s">>

\* The number of handleSaveQuote calls made one after another.
MaxQuotes == 2

\* The outcomes of Math.random().toString(36).substr(2, 8) tried: two
\* identifiers of eight characters and a short one.
BlockIds ==
    {<<"k", "0", "0", "0", "0", "0", "0", "1">>, <<"k", "0", "0", "0", "0", "0", "0", "2">>,
     <<"i">>}

\* now.toLocaleString()
TimeStamp == <<"T">>

\* The editor when no note is open.
NoEditor == [text |-> <<>>, hasFile |-> FALSE, basename |-> <<>>]

\* The frame of handleSaveQuote between two calls.  `saved` lists the calls
\* that ended with the notice "Quote saved": their block id, the path of the
\* quotes file and the entry.
IdleQuote ==
    [pc |-> "idle", blockId |-> <<>>, quotesFolder |-> <<>>, quotesFilePath |-> <<>>,
     quoteEntry |-> <<>>, newContent |-> <<>>, io |-> NoIo, notices |-> <<>>,
     saved |-> <<>>, count |-> 0]

\* /\n\^\w{8,}/.test(s)
BlockIdRegexTest(s) ==
    \E i \in DOMAIN s :
        /\ i + 9 <= Len(s)
        /\ s[i] = "\n" /\ s[i + 1] = "^"
        /\ \A k \in (i + 2)..(i + 9) : s[k] \in WordChars

\* `\n^${blockId}`
BlockMarker(blockId) == <<"\n", "^">> \o blockId

\* selectedText.split("\n").map(line => line.startsWith("^") ? line : `> ${line.trim()}`).join("\n")
FormattedQuote(selectedText) ==
    Join(Map(Split(selectedText, "\n"),
             LAMBDA line : IF StartsWith(line, <<"^">>) THEN line ELSE <<">", " ">> \o Trim(line)),
         <<"\n">>)

\* `[[${linkText}#^${blockId}]]`
SourceLink(linkText, blockId) == <<"[", "[">> \o linkText \o <<"#", "^">> \o blockId \o <<"]", "]">>

\* `\n\n### Quote from ${timeStamp}\n\n${formattedQuote}\n\n_Source: ${sourceLink}_\n`
QuoteEntry(formattedQuote, sourceLink) ==
    <<"\n", "\n", "#", "#", "#", " ", "Q", "u", "o", "t", "e", " ", "f", "r", "o", "m", " ">>
    \o TimeStamp \o <<"\n", "\n">> \o formattedQuote
    \o <<"\n", "\n", "_", "S", "o", "u", "r", "c", "e", ":", " ">> \o sourceLink \o <<"_", "\n">>

\* `# Quotes for: ${bookFile.basename}\n` + `_File created ${timeStamp}_\n\n---\n`
QuotesHeader(basename) ==
    <<"#", " ", "Q", "u", "o", "t", "e", "s", " ", "f", "o", "r", ":", " ">> \o basename \o <<"\n">>
    \o <<"_", "F", "i", "l", "e", " ", "c", "r", "e", "a", "t", "e", "d", " ">> \o TimeStamp
    \o <<"_", "\n", "\n", "-", "-", "-", "\n">>

\* `${quotesFolder}/${quotesFileName}` or quotesFileName
QuotesFilePath(quotesFolder, basename) ==
    (IF Len(quotesFolder) > 0 THEN quotesFolder \o <<"/">> ELSE <<>>)
    \o basename \o <<"-", "q", "u", "o", "t", "e", "s", ".", "m", "d">>

\* editor.replaceSelection(replacement) for the selection from..to.
ReplaceSelection(text, from, to, replacement) ==
    SubSeq(text, 1, from - 1) \o replacement \o SubSeq(text, to + 1, Len(text))

\* The call has ended: the frame waits for the next call.
QuoteEnded(q, notice) == [q EXCEPT !.pc = "idle", !.io = NoIo, !.notices = Append(@, notice),
                                   !.count = @ + 1]

\* handleSaveQuote(view) with the characters from..to of the editor selected
\* and blockId drawn: up to the first await.
handleSaveQuote(from, to, blockId) ==
    /\ quote.pc = "idle"
    /\ quote.count < MaxQuotes
    /\ LET selected       == Trim(SubSeq(editor.text, from, to))
           marked         == BlockIdRegexTest(selected)
           selectedText   == IF marked THEN selected ELSE selected \o BlockMarker(blockId)
           quotesFolder   == Trim(settings.quotesFolderPath)
           quotesFilePath == QuotesFilePath(quotesFolder, editor.basename)
           sourceLink     == SourceLink(editor.basename, blockId)
           quoteEntry     == QuoteEntry(FormattedQuote(selectedText), sourceLink)
           newContent     == QuotesHeader(editor.basename) \o quoteEntry
           q              == [quote EXCEPT !.blockId = blockId, !.quotesFolder = quotesFolder,
                                           !.quotesFilePath = quotesFilePath,
                                           !.quoteEntry = quoteEntry, !.newContent = newContent]
       IN  IF Len(selected) = 0
           THEN /\ quote' = QuoteEnded(quote, "No text selected!")
                /\ UNCHANGED editor
           ELSE IF ~editor.hasFile
           THEN /\ quote' = QuoteEnded(quote, "Could not determine current file.")
                /\ UNCHANGED editor
           ELSE /\ editor' = IF marked THEN editor
                             ELSE [editor EXCEPT !.text = ReplaceSelection(@, from, to, selectedText)]
                /\ quote' =
                      IF Exists(DOMAIN vault, quotesFilePath)
                      THEN [q EXCEPT !.pc = "readQuotes"]
                      ELSE IF Len(quotesFolder) > 0 /\ ~Exists(DOMAIN vault, quotesFolder)
                      THEN [q EXCEPT !.pc = "ensureQuotesFolder",
                                     !.io = Pending("createFolder", quotesFolder, <<>>)]
                      ELSE [q EXCEPT !.pc = "createQuotes",
                                     !.io = Pending("create", quotesFilePath, newContent)]
    /\ UNCHANGED <<vault, footnotes, settings, conv>>

\* After `await this.app.vault.read(existingFile)`: the content read, or
\* none when the read failed; the call of vault.modify.
AfterReadQuotes(failed) ==
    /\ quote.pc = "readQuotes"
    /\ LET existingContent == IF failed THEN <<>> ELSE vault[quote.quotesFilePath].data
           newContent      == existingContent \o quote.quoteEntry
       IN  quote' = [quote EXCEPT !.pc = "modifyQuotes", !.newContent = newContent,
                                  !.io = Pending("modify", quote.quotesFilePath, newContent)]
    /\ UNCHANGED <<vault, footnotes, settings, conv, editor>>

\* The vault performs the call handleSaveQuote awaits: vault.modify writes
\* the file, createFolder and create are rejected when the path is taken.
QuoteStorageApply ==
    /\ quote.io.st = "pending"
    /\ IF quote.io.op = "modify"
       THEN /\ vault' = [vault EXCEPT ![quote.io.path].data = quote.io.data]
            /\ quote' = [quote EXCEPT !.io.st = "ok"]
       ELSE IF quote.io.path \in DOMAIN vault
       THEN /\ quote' = [quote EXCEPT !.io.st = "rejected"]
            /\ UNCHANGED vault
       ELSE /\ quote' = [quote EXCEPT !.io.st = "ok"]
            /\ vault' = [p \in DOMAIN vault \cup {quote.io.path} |->
                            IF p = quote.io.path
                            THEN [kind |-> KindOf(quote.io.op), data |-> quote.io.data]
                            ELSE vault[p]]
    /\ UNCHANGED <<footnotes, settings, conv, editor>>

\* After `await this.ensureFolderExists(quotesFolder)`: the call of
\* vault.create, or the catch block.
AfterEnsureQuotesFolder ==
    /\ quote.pc = "ensureQuotesFolder"
    /\ Settled(quote)
    /\ quote' = IF quote.io.st = "rejected" THEN QuoteEnded(quote, "Error saving quote")
                ELSE [quote EXCEPT !.pc = "createQuotes",
                                   !.io = Pending("create", quote.quotesFilePath, quote.newContent)]
    /\ UNCHANGED <<vault, footnotes, settings, conv, editor>>

\* After `await this.app.vault.modify` or `await this.app.vault.create`:
\* the notice, or the catch block.
AfterWriteQuotes ==
    /\ quote.pc \in {"modifyQuotes", "createQuotes"}
    /\ Settled(quote)
    /\ quote' = IF quote.io.st = "rejected" THEN QuoteEnded(quote, "Error saving quote")
                ELSE [QuoteEnded(quote, "Quote saved")
                      EXCEPT !.saved = Append(@, [blockId |-> quote.blockId,
                                                  path    |-> quote.quotesFilePath,
                                                  entry   |-> quote.quoteEntry])]
    /\ UNCHANGED <<vault, footnotes, settings, conv, editor>>

(***************************************************************************)
(* The documents, vaults and settings the conversions are run on.          *)
(***************************************************************************)

\* The number of convertFB2 calls in flight together.
NumConv == 2

\* The number of convertFB2 calls made one after another.
NumSeq == 2

\* The most sections of a generated main body, the most note sections of a
\* generated notes body.
MaxNodes == 6
MaxNoteNodes == 4
MaxAuthors == 3

\* The most children of a generated title element.
MaxTitleParts == 2

RECURSIVE Forests(_)
\* The shapes of the section forests with exactly n sections.
Forests(n) ==
    IF n = 0 THEN {<<>>}
    ELSE UNION {{<<t>> \o rest : t \in Forests(k - 1), rest \in Forests(n - k)} : k \in 1..n}

ForestsUpTo(n) == UNION {Forests(k) : k \in 0..n}

Png == <<"i", "m", "a", "g", "e", "/", "p", "n", "g">>
ValidPayloadA == <<"Q", "Q", "=", "=">>
ValidPayloadB == <<" ", "Q", "g", "=", "=", "\n">>

Bin(id, ctype, data) == [id |-> id, ctype |-> ctype, data |-> data]

\* Two books with the same base name and the same image identifier, with
\* different payloads and different notes, and a third book with metadata
\* and a cover and without notes.
BookA ==
    [PlainBook EXCEPT !.cover = <<"i">>, !.refs = <<<<"#", "i">>>>, !.hasNotes = TRUE,
                      !.notes = <<<<>>>>,
                      !.mark = <<"A">>, !.bins = <<Bin(<<"i">>, Null, ValidPayloadA)>>]
BookB ==
    [PlainBook EXCEPT !.cover = <<"#", "I">>, !.hasNotes = TRUE, !.notes = <<<<>>, <<>>>>,
                      !.mark = <<"B">>, !.bins = <<Bin(<<"i">>, Null, ValidPayloadB)>>]
BookC ==
    [PlainBook EXCEPT !.title = <<"C", "?">>, !.authors = <<<<<<"A">>, <<"K">>>>>>,
                      !.cover = <<"#", "i">>, !.bins = <<Bin(<<"i">>, Png, ValidPayloadA)>>]

\* A book whose cover is a payload that is not base64.
BookBad ==
    [PlainBook EXCEPT !.cover = <<"#", "i">>, !.bins = <<Bin(<<"i">>, Png, <<"Q">>)>>]

FileA == File(<<"x">>, <<"b">>, BookA)
FileB == File(<<"y">>, <<"b">>, BookB)
FileC == File(<<"x">>, <<"c">>, BookC)
FileBad == File(<<"x">>, <<"d">>, BookBad)

\* The files of the concurrent conversions.
ConcFiles == {FileA, FileB, FileC, FileBad}

\* A book whose cover and two items are one image.
BookTwice ==
    [PlainBook EXCEPT !.cover = <<"i">>, !.refs = <<<<"#", "i">>, <<"#", "I">>>>,
                      !.bins = <<Bin(<<"i">>, Png, ValidPayloadA)>>]

\* A file that is not well-formed XML, and a book with a cover, an image and
\* notes but no main body.
BookMalformed == [PlainBook EXCEPT !.malformed = TRUE]
BookNoMain ==
    [PlainBook EXCEPT !.main = FALSE, !.cover = <<"#", "i">>, !.hasNotes = TRUE,
                      !.notes = <<<<>>>>, !.bins = <<Bin(<<"i">>, Png, ValidPayloadA)>>]

\* A book with a title and no author, and a book with an author and no title.
BookTitleOnly == [PlainBook EXCEPT !.title = <<"b">>]
BookAuthorOnly == [PlainBook EXCEPT !.authors = <<<<Null, <<"K", "/">>>>>>]

\* The files of the conversions made one after another.
SeqFiles ==
    ConcFiles \cup {File(<<"x">>, <<"t">>, BookTwice), File(<<"x">>, <<"m">>, BookMalformed),
                    File(<<"x">>, <<"n">>, BookNoMain), File(<<"x">>, <<"u">>, BookTitleOnly),
                    File(<<"x">>, <<"v">>, BookAuthorOnly)}

\* The link targets tried against the binary "Im": other case, with and
\* without "#", with an extension-like suffix, and targets that resolve to
\* nothing.
LinkTargets ==
    {<<"#", "I", "M">>, <<"#", "i", "m">>, <<"i", "M">>, <<"i", "m", ".", "j", "p", "g">>,
     <<"#", "i", "m", ".", "p", ".", "g">>, <<"#", "x">>, <<"#">>, <<>>}

\* The payloads of the binary: valid, empty, white space only, not base64.
Payloads == {ValidPayloadA, <<>>, <<" ", "\n">>, <<"Q">>}

\* The binary sections of the image books: the binary "Im" alone, typed or
\* not, a binary without identifier, the binary "Im" after a binary whose
\* identifier has a dot, the binaries "Im" and "IM", or two binaries without
\* identifier.
BinSets ==
    {<<Bin(<<"I", "m">>, Png, data)>> : data \in Payloads}
    \cup {<<Bin(<<"I", "m">>, Null, ValidPayloadB)>>, <<Bin(Null, Png, ValidPayloadA)>>,
          <<Bin(<<"i", "m", ".", "j", "p", "g">>, <<"i", "m", "a", "g", "e">>, ValidPayloadB),
            Bin(<<"I", "m">>, Png, ValidPayloadA)>>,
          <<Bin(<<"I", "m">>, Png, ValidPayloadA), Bin(<<"I", "M">>, Null, ValidPayloadB)>>,
          <<Bin(Null, Png, ValidPayloadA), Bin(Null, Null, ValidPayloadB)>>}

\* Books with one section whose cover and whose image item each are one of
\* the link targets, or absent.
ImageBooks ==
    {[PlainBook EXCEPT !.cover = cover, !.refs = refs, !.bins = bins] :
        cover \in LinkTargets \cup {Null},
        refs \in {<<>>} \cup {<<r>> : r \in LinkTargets},
        bins \in BinSets}

\* Books whose main body is any forest of at most MaxNodes sections, in one
\* body or with the first root section in a body of its own.
TreeBooks ==
    {[PlainBook EXCEPT !.shape = t[1], !.split = t[2]] :
        t \in {u \in ForestsUpTo(MaxNodes) \X {0, 1} : u[2] <= Len(u[1])}}

\* Books whose notes body is any forest of at most MaxNoteNodes sections,
\* labelled from the body or from the path <<2>> (under which the first two
\* top-level sections have no identifier and an empty one).
NoteBooks ==
    {[PlainBook EXCEPT !.hasNotes = TRUE, !.notes = notes, !.noteRoot = root] :
        notes \in ForestsUpTo(MaxNoteNodes), root \in {<<>>, <<2>>}}

Link(attr, href, text) == [attr |-> attr, href |-> href, text |-> text]

\* The links tried: to the notes "n1" and "d" by href and by xlink:href, to a
\* note that does not exist, a bare "#", an address, and a link by l:href.
LinkSet ==
    {Link("href", <<"#", "n", "1">>, <<"1">>), Link("xlink:href", <<"#", "n", "1">>, <<"*">>),
     Link("href", <<"#", "d">>, <<"2">>), Link("href", <<"#", "N", "1">>, <<"3">>),
     Link("href", <<"#">>, <<"4">>), Link("href", <<"u", ":", "n", "1">>, <<"5">>),
     Link("l:href", <<"#", "n", "1">>, <<"6">>)}

\* Books with one section that holds one or two paragraphs with a link, and
\* with a notes body of one, two or three notes.
LinkBooks ==
    {[PlainBook EXCEPT !.hasNotes = TRUE, !.notes = notes, !.links = links] :
        notes \in {<<<<>>>>, <<<<>>, <<>>>>, <<<<>>, <<>>, <<>>>>},
        links \in {<<l>> : l \in LinkSet}
                  \cup {<<Link("href", <<"#", "n", "1">>, <<"1">>), l>> : l \in LinkSet}}

\* The authors tried: first and last name, one of them, none, a blank first.
AuthorSet ==
    {<<<<"A">>, <<"K">>>>, <<<<"L">>, Null>>, <<Null, Null>>, <<<<" ">>, <<"T", ":">>>>}

\* Books with or without a title and with up to MaxAuthors authors.
MetaBooks ==
    {[PlainBook EXCEPT !.title = title, !.authors = authors] :
        title \in {Null, <<" ">>, <<"B">>, <<" ", "C", "?">>},
        authors \in UNION {[1..n -> AuthorSet] : n \in 0..MaxAuthors}}

\* The children of a title element tried: a blank paragraph, a paragraph, a
\* text node.
TitleParts ==
    {[kind |-> "p", text |-> <<" ">>], [kind |-> "p", text |-> <<" ", "A", "\n">>],
     [kind |-> "text", text |-> <<"x", " ">>]}

\* The title elements tried: any MaxTitleParts children or fewer, and a
\* paragraph inside a strong element, alone and after a blank paragraph.
TitleSet ==
    UNION {[1..n -> TitleParts] : n \in 0..MaxTitleParts}
    \cup {<<[kind |-> "strong", text |-> <<"n">>]>>,
          <<[kind |-> "p", text |-> <<" ">>], [kind |-> "strong", text |-> <<"n">>]>>}

\* Books whose section has no, one or two title elements.
TitleBooks ==
    {[PlainBook EXCEPT !.titles = titles] :
        titles \in {<<>>} \cup {<<t>> : t \in TitleSet} \cup {<<t, u>> : t, u \in TitleSet}}

Item(kind, text) == [kind |-> kind, text |-> text]

\* Books whose first section holds, after its own paragraph, a paragraph
\* with a link, an image item, a nested section, and after it paragraphs and
\* image items that resolve or not.
ItemBooks ==
    {[PlainBook EXCEPT !.shape = shape, !.refs = refs, !.links = links, !.tail = tail,
                       !.bins = bins] :
        shape \in {<<<<>>>>, <<<<<<>>>>, <<>>>>},
        refs  \in {<<>>, <<<<"#", "I", "M">>>>, <<<<"#", "x">>>>},
        links \in {<<>>, <<Link("href", <<"#", "n", "1">>, <<"1">>)>>},
        tail  \in {<<>>,
                   <<Item("image", <<"#", "i", "m">>), Item("p", <<" ", "q">>)>>,
                   <<Item("p", <<"q">>), Item("image", <<"#", "x">>),
                     Item("image", <<"i", "M">>)>>},
        bins  \in {<<>>, <<Bin(<<"I", "m">>, Png, ValidPayloadA)>>,
                   <<Bin(<<"I", "m">>, Png, <<" ", "\n">>)>>}}

\* The files of the single conversions.
OneFiles ==
    {File(<<"x">>, <<"b">>, d) :
        d \in ImageBooks \cup TreeBooks \cup NoteBooks \cup LinkBooks \cup MetaBooks
              \cup TitleBooks \cup ItemBooks \cup {BookA, BookMalformed, BookNoMain}}

\* The vault before the conversions: empty, or holding earlier output.
EmptyVault == <<>>

Folder == [kind |-> "folder", data |-> <<>>]

EarlierVault ==
    LET dir == ImageFolderPath(DefaultImageFolderPath, <<"b">>)
    IN  (dir :> Folder)
        @@ (ImageCandidate(dir, ImageRecord(BinaryEl(Bin(<<"i">>, Null, <<>>))), 1)
              :> [kind |-> "binary", data |-> <<0>>])
        @@ (MdCandidate(<<>>, <<"b">>, 0) :> [kind |-> "text", data |-> <<>>])

\* The settings: the defaults, or an output folder that has to be created.
SettingsSet ==
    {[imageFolderPath |-> DefaultImageFolderPath, outputFolderPath |-> folder,
      quotesFolderPath |-> DefaultQuotesFolderPath] :
        folder \in {<<>>, <<" ", "o">>}}

(***************************************************************************)
(* Specifications.                                                         *)
(***************************************************************************)

InitWith(procs, vaults) ==
    /\ vault \in vaults
    /\ footnotes = <<>>
    /\ settings \in SettingsSet
    /\ conv = [c \in procs |-> IdleFrame]
    /\ editor = NoEditor
    /\ quote = IdleQuote

\* Conversions in flight together.
Init == InitWith(1..NumConv, {EmptyVault})

Next ==
    \/ \E c \in DOMAIN conv, file \in ConcFiles : Start(c, file)
    \/ Steps

Spec == Init /\ [][Next]_vars

\* Conversions made one after another.
InitSeq == InitWith(1..NumSeq, {EmptyVault, EarlierVault})

NextSeq ==
    \/ \E c \in DOMAIN conv, file \in SeqFiles : StartAlone(c, file)
    \/ Steps

SpecSeq == InitSeq /\ [][NextSeq]_vars

\* One conversion of one of many documents.
InitOne == InitWith({1}, {EmptyVault})

NextOne ==
    \/ \E c \in DOMAIN conv, file \in OneFiles : Start(c, file)
    \/ Steps

SpecOne == InitOne /\ [][NextOne]_vars

\* The note "n" open in the editor, and a view without a file.
NoteEditor == [text |-> <<"a", " ", "\n", "b">>, hasFile |-> TRUE, basename |-> <<"n">>]
NoFileEditor == [NoteEditor EXCEPT !.hasFile = FALSE]

\* A vault that holds the quotes folder and the quotes files of the note.
QuotesVault ==
    LET old == [kind |-> "text", data |-> <<"o", "l", "d">>]
    IN  (DefaultQuotesFolderPath :> Folder)
        @@ (QuotesFilePath(DefaultQuotesFolderPath, <<"n">>) :> old)
        @@ (QuotesFilePath(<<>>, <<"n">>) :> old)

\* The settings of the quotes: the default folder, or none.
QuoteSettingsSet ==
    {[imageFolderPath |-> DefaultImageFolderPath, outputFolderPath |-> <<>>,
      quotesFolderPath |-> folder] : folder \in {DefaultQuotesFolderPath, <<>>}}

\* Quotes saved one after another from one note.
InitQuote ==
    /\ vault \in {EmptyVault, QuotesVault}
    /\ footnotes = <<>>
    /\ settings \in QuoteSettingsSet
    /\ conv = [c \in {1} |-> IdleFrame]
    /\ editor \in {NoteEditor, NoFileEditor}
    /\ quote = IdleQuote

NextQuote ==
    \/ \E from \in 1..(Len(editor.text) + 1) :
          \E to \in (from - 1)..Len(editor.text), blockId \in BlockIds :
              handleSaveQuote(from, to, blockId)
    \/ \E failed \in BOOLEAN : AfterReadQuotes(failed)
    \/ QuoteStorageApply
    \/ AfterEnsureQuotesFolder
    \/ AfterWriteQuotes

SpecQuote == InitQuote /\ [][NextQuote]_vars

(***************************************************************************)
(* Claims.                                                                 *)
(***************************************************************************)

Calls == DOMAIN conv

\* The create calls a conversion has made so far, and its calls of one kind.
CreateCalls(c) == SelectSeq(conv[c].calls, LAMBDA k : k.op # "read")
CallsOf(c, op) == SelectSeq(conv[c].calls, LAMBDA k : k.op = op)

\* The conversion of the frame ended with its output written.
Converted(f) == f.pc = "done" /\ f.notices = <<"FB2 converted">>

\* addSections has returned in the frame.
SectionsWritten(f) ==
    f.pc \in {"addSectionsReturned", "ensureOutputFolder", "mdPathReturned", "create"} \/ Converted(f)

\* The footnote block has been pushed in the frame.
WroteFootnotes(f) == f.pc \in {"ensureOutputFolder", "mdPathReturned", "create"} \/ Converted(f)

\* The footnote block of the lines of a frame.
FootnoteBlock(f) == SelectSeq(f.mdLines, LAMBDA l : l.by \in {"fnhead", "fn"})

\* C1: when conversions of different documents are in flight together, the
\* footnote block a conversion writes is the block of its own document's
\* notes body: the heading and one definition per entry of that document,
\* nothing when the document has no footnote entry, and no entry of a
\* document another conversion reads.
C1_FootnotesOfOwnDocument ==
    \A c \in Calls :
        WroteFootnotes(conv[c]) =>
            FootnoteBlock(conv[c]) = FootnoteLines(parseFootnotes(Content(conv[c].file.doc)))

\* C2: in conversions made one after another, createBinary is only called
\* with a path that is not in the vault at that moment, no two createBinary
\* calls name the same path, and every file a createBinary call has made
\* holds the bytes of the image it was called for.
C2_NeverOverwrites ==
    \A c \in Calls : \A i \in DOMAIN conv[c].calls :
        LET k == conv[c].calls[i]
        IN  k.op = "createBinary" =>
                /\ ~k.existed
                /\ k.path \in DOMAIN vault =>
                      vault[k.path] = [kind |-> "binary",
                                       data |-> base64ToUint8Array(Trim(k.img.data))]
                /\ \A c2 \in Calls : \A j \in DOMAIN conv[c2].calls :
                      (conv[c2].calls[j].op = "createBinary" /\ <<c2, j>> # <<c, i>>)
                          => conv[c2].calls[j].path # k.path

\* Two conversions of books with the same base name have each saved an image
\* with the same identifier and type and different payloads: both files are
\* in the vault, with different bytes.
C2_Witness ==
    \E c1, c2 \in Calls : \E i \in DOMAIN conv[c1].calls, j \in DOMAIN conv[c2].calls :
        LET a == conv[c1].calls[i]
            b == conv[c2].calls[j]
        IN  /\ c1 # c2 /\ a.op = "createBinary" /\ b.op = "createBinary"
            /\ a.img.id = b.img.id /\ a.img.contentType = b.img.contentType
            /\ a.img.data # b.img.data
            /\ conv[c1].file.basename = conv[c2].file.basename
            /\ a.path \in DOMAIN vault /\ b.path \in DOMAIN vault
            /\ a.path # b.path /\ vault[a.path].data # vault[b.path].data

\* C3: a conversion of a file that does not parse, or of a document without
\* a main body, ends after the read with one notice, which is not the
\* notice of success, and has made no create call of any kind.
C3_FatalErrorsWriteNothing ==
    \A c \in Calls :
        LET f == conv[c]
            d == f.file.doc
        IN  (f.pc \notin {"idle", "read"} /\ (d.malformed \/ ~d.main)) =>
                /\ f.pc = "done"
                /\ Len(f.notices) = 1 /\ f.notices[1] # "FB2 converted"
                /\ CreateCalls(c) = <<>>
                /\ f.io = NoIo

\* A malformed file and a book with a cover, an image and notes but no main
\* body have both been given to convertFB2, which has returned.
C3_Witness ==
    \E c1, c2 \in Calls :
        /\ conv[c1].pc = "done" /\ conv[c1].file.doc.malformed
        /\ conv[c1].notices = <<"Error parsing FB2">>
        /\ conv[c2].pc = "done" /\ ~conv[c2].file.doc.main /\ conv[c2].file.doc.cover # Null
        /\ conv[c2].notices = <<"No main <body> found in FB2.">>

\* C4: conversions in flight together make no create call for a path that is
\* in the vault at the moment of the call, and the paths of the createBinary
\* and create calls of one conversion are none of those of a conversion of
\* another file.
C4_NoStorageCollision ==
    /\ \A c \in Calls : \A i \in DOMAIN CreateCalls(c) : ~CreateCalls(c)[i].existed
    /\ \A c1, c2 \in Calls :
          (c1 # c2 /\ conv[c1].file.path # conv[c2].file.path) =>
              \A i \in DOMAIN CreateCalls(c1), j \in DOMAIN CreateCalls(c2) :
                  LET a == CreateCalls(c1)[i]
                      b == CreateCalls(c2)[j]
                  IN  (a.op \in {"createBinary", "create"} /\ b.op \in {"createBinary", "create"})
                          => a.path # b.path

\* The path of a flattened section in its document (the child indices from
\* the body down), read from the text of the section's own paragraph.
PathOf(sec) ==
    LET t == textContent(sec.paragraphs[1])
    IN  [k \in 1..(Len(t) - 1) |-> IndexIn(t[k + 1], Digits) - 1]

\* p is a proper prefix of q: the section at p is an ancestor of the one at q.
IsAncestor(p, q) == Len(p) < Len(q) /\ SubSeq(q, 1, Len(p)) = p

\* p and q are children of one parent (or both roots).
AreSiblings(p, q) ==
    /\ Len(p) = Len(q) /\ Len(p) > 0
    /\ SubSeq(p, 1, Len(p) - 1) = SubSeq(q, 1, Len(q) - 1)

RECURSIVE NodeCount(_)
\* The number of sections of a forest of section shapes.
NodeCount(kids) ==
    IF Len(kids) = 0 THEN 0 ELSE 1 + NodeCount(kids[1]) + NodeCount(Tail(kids))

RECURSIVE TreePaths(_, _)
\* The paths of the sections of a forest of section shapes.
TreePaths(kids, path) ==
    UNION {{Append(path, i)} \cup TreePaths(kids[i], Append(path, i)) : i \in DOMAIN kids}

\* The document of the frame was parsed and has a main body.
Flattened(f) == f.pc \notin {"idle", "read"} /\ ~f.file.doc.malformed /\ f.file.doc.main

\* C5: the flattened list has as many entries as the section trees have
\* nodes, every entry is a node of the trees and none comes twice; every node
\* precedes its descendants, which form the block right after it; siblings
\* keep their document order.
C5_FlattenIsPreorder ==
    \A c \in Calls :
        LET f       == conv[c]
            flat    == f.flatSections
            path(i) == PathOf(flat[i])
        IN  Flattened(f) =>
                /\ Len(flat) = NodeCount(f.file.doc.shape)
                /\ \A i \in DOMAIN flat : path(i) \in TreePaths(f.file.doc.shape, <<>>)
                /\ \A i, j \in DOMAIN flat : i # j => path(i) # path(j)
                /\ \A i, j \in DOMAIN flat :
                      IsAncestor(path(i), path(j)) =>
                          /\ i < j
                          /\ \A k \in (i + 1)..j : IsAncestor(path(i), path(k))
                /\ \A i, j \in DOMAIN flat :
                      (AreSiblings(path(i), path(j)) /\ path(i)[Len(path(i))] < path(j)[Len(path(j))])
                          => i < j

\* A document was flattened in which a section three levels deep or deeper
\* is followed by a later root section, and a section has two children.
C5_Witness ==
    \E c \in Calls :
        LET flat == conv[c].flatSections
        IN  /\ Flattened(conv[c])
            /\ \E i, j \in DOMAIN flat :
                  i < j /\ Len(PathOf(flat[i])) >= 3 /\ Len(PathOf(flat[j])) = 1
            /\ \E i \in DOMAIN flat : Len(flat[i].children) = 2

\* The link target t is "#" followed by k in some letter case.
HashForm(t, k) == Len(t) = Len(k) + 1 /\ t[1] = "#" /\ ToLowerCase(Tail(t)) = k

\* The link target t is k followed by "." and a suffix.
DotForm(t, k) == Len(t) > Len(k) + 1 /\ SubSeq(t, 1, Len(k)) = k /\ t[Len(k) + 1] = "."

\* The image record has a payload that is not blank and decodes.
Usable(e) == Len(Trim(e.data)) > 0 /\ base64ToUint8Array(Trim(e.data)) # DecodeError

\* The frame holds an embed line pushed by `by` for a file that createBinary
\* was called to make from the image record e.
SavedAs(f, e, by) ==
    \E i \in DOMAIN f.mdLines, j \in DOMAIN f.calls :
        /\ f.mdLines[i].by = by
        /\ f.calls[j].op = "createBinary" /\ f.calls[j].img = e
        /\ f.mdLines[i].text = EmbedText(f.calls[j].path)

\* The key a link target is looked up by first: without "#", in lower case.
FullKey(t) == ToLowerCase(StripHash(t))

\* C6, as the specification states it: for a registry entry keyed by a
\* non-empty k without a dot, the cover reference and a section image item both resolve to the
\* entry when their target is "#" and k in any letter case, and when it is k,
\* a dot and a suffix.
C6_LookupEverywhere ==
    \A c \in Calls :
        LET f == conv[c]
            d == f.file.doc
        IN  Converted(f) =>
                \A i \in DOMAIN f.imageMap :
                    LET k == f.imageMap[i].k
                        e == f.imageMap[i].v
                    IN  (~Includes(k, ".") /\ Len(k) > 0 /\ Usable(e)) =>
                            /\ (d.cover # Null /\ (HashForm(d.cover, k) \/ DotForm(d.cover, k)))
                                   => SavedAs(f, e, "cover")
                            /\ \A r \in Range(d.refs) :
                                   (HashForm(r, k) \/ DotForm(r, k)) => SavedAs(f, e, "image")

\* C6, amended: for a registry entry keyed by a non-empty k without a dot,
\* the cover reference and a section image item resolve to the entry when
\* their target is "#" and k in any letter case; a target of k, a dot and a
\* suffix resolves to the entry keyed by the whole target when there is one,
\* and otherwise to the entry k for the cover and to nothing for a section
\* image item.
C6_Lookup ==
    \A c \in Calls :
        LET f == conv[c]
            d == f.file.doc
        IN  Converted(f) =>
                \A i \in DOMAIN f.imageMap :
                    LET k       == f.imageMap[i].k
                        e       == f.imageMap[i].v
                        whole(t) == ImageGet(f.imageMap, FullKey(t))
                    IN  (~Includes(k, ".") /\ Len(k) > 0 /\ Usable(e)) =>
                            /\ (d.cover # Null /\ HashForm(d.cover, k)) => SavedAs(f, e, "cover")
                            /\ (d.cover # Null /\ DotForm(d.cover, k)) =>
                                   IF whole(d.cover) # NoImage
                                   THEN SavedAs(f, whole(d.cover), "cover")
                                   ELSE SavedAs(f, e, "cover")
                            /\ \A r \in Range(d.refs) :
                                   /\ HashForm(r, k) => SavedAs(f, e, "image")
                                   /\ (DotForm(r, k) /\ Len(d.refs) = 1) =>
                                          IF whole(r) # NoImage
                                          THEN SavedAs(f, whole(r), "image")
                                          ELSE \A n \in DOMAIN f.mdLines : f.mdLines[n].by # "image"

\* A book was converted whose cover target is the key "im" with a suffix and
\* whose image item is "#IM": both were saved from the entry keyed "im".
C6_Witness ==
    \E c \in Calls :
        LET f == conv[c]
            e == ImageGet(f.imageMap, <<"i", "m">>)
        IN  /\ Converted(f)
            /\ f.file.doc.cover = <<"i", "m", ".", "j", "p", "g">>
            /\ f.file.doc.refs = <<<<"#", "I", "M">>>>
            /\ e # NoImage /\ SavedAs(f, e, "cover") /\ SavedAs(f, e, "image")

\* C7: no conversion calls createBinary for an image record whose payload is
\* empty or white space only, and every embed line, of the cover or of a
\* section image item, names a file made from a payload that is not blank.
C7_BlankPayloadRejected ==
    \A c \in Calls :
        LET f == conv[c]
        IN  /\ \A j \in DOMAIN f.calls :
                  f.calls[j].op = "createBinary" => Len(Trim(f.calls[j].img.data)) > 0
            /\ \A i \in DOMAIN f.mdLines :
                  f.mdLines[i].by \in {"cover", "image"} =>
                      \E j \in DOMAIN f.calls :
                          /\ f.calls[j].op = "createBinary"
                          /\ f.mdLines[i].text = EmbedText(f.calls[j].path)
                          /\ Len(Trim(f.calls[j].img.data)) > 0

RECURSIVE NoteNodes(_, _)
\* The note sections of a notes body in document order, each with its path
\* and the shapes of its nested sections.
NoteNodes(kids, path) ==
    Flat([i \in DOMAIN kids |->
            <<[path |-> Append(path, i), kids |-> kids[i]]>>
            \o NoteNodes(kids[i], Append(path, i))])

\* The trimmed text of the paragraph that is a direct child of the note at path.
OwnNoteText(path, mark) == <<"t">> \o PathLabel(path) \o mark

RECURSIVE NoteParagraphs(_, _, _)
\* The trimmed texts of all the paragraphs inside the note at path, in
\* document order: its own, that of its cite, those of its nested sections.
NoteParagraphs(kids, path, mark) ==
    <<OwnNoteText(path, mark)>>
    \o (IF Sum(path) % 2 = 0 THEN <<<<"c">> \o PathLabel(path)>> ELSE <<>>)
    \o Flat([i \in DOMAIN kids |-> NoteParagraphs(kids[i], Append(path, i), mark)])

\* The footnotes of the plugin are those parsed for the frame's document.
NotesParsed(f) ==
    f.pc \notin {"idle", "read"} /\ ~f.file.doc.malformed /\ f.file.doc.hasNotes

\* C8, as the specification states it: the text of the entry of a note
\* section with an identifier (one no other section shares) is the text of
\* the section's direct paragraph children, and nothing of the paragraphs
\* nested deeper.
C8_DirectParagraphsOnly ==
    \A c \in Calls :
        LET f     == conv[c]
            d     == f.file.doc
            nodes == NoteNodes(d.notes, d.noteRoot)
        IN  NotesParsed(f) =>
                \A i \in DOMAIN nodes :
                    LET id == NoteIdOf(nodes[i].path)
                    IN  (Truthy(id) /\ \A j \in DOMAIN nodes : NoteIdOf(nodes[j].path) = id => j = i)
                            => MapGet(footnotes, id, Null) = OwnNoteText(nodes[i].path, d.mark)

\* C8, amended: the footnote table has one entry per identifier of the note
\* sections at any depth of the notes body, and the text of the entry is the
\* space-joined trimmed text of all the paragraphs inside the last section
\* with that identifier, at any depth, in document order.
C8_AllParagraphs ==
    \A c \in Calls :
        LET f     == conv[c]
            d     == f.file.doc
            nodes == NoteNodes(d.notes, d.noteRoot)
            ids   == {NoteIdOf(nodes[i].path) : i \in DOMAIN nodes} \ {Null, <<>>}
        IN  NotesParsed(f) =>
                /\ {footnotes[n].k : n \in DOMAIN footnotes} = ids
                /\ Len(footnotes) = Cardinality(ids)
                /\ \A i \in DOMAIN nodes :
                      LET id == NoteIdOf(nodes[i].path)
                      IN  (Truthy(id) /\ \A j \in DOMAIN nodes : NoteIdOf(nodes[j].path) = id => j <= i)
                              => MapGet(footnotes, id, Null)
                                     = Join(NoteParagraphs(nodes[i].kids, nodes[i].path, d.mark), <<" ">>)

\* The footnotes were parsed of a notes body in which a section with an
\* identifier of its own holds a nested section and has an entry with more
\* than the text of its direct paragraph.
C8_Witness ==
    \E c \in Calls :
        LET f     == conv[c]
            nodes == NoteNodes(f.file.doc.notes, f.file.doc.noteRoot)
        IN  /\ NotesParsed(f) /\ Converted(f)
            /\ \E i \in DOMAIN nodes :
                  LET id == NoteIdOf(nodes[i].path)
                  IN  /\ Truthy(id) /\ Len(nodes[i].kids) > 0
                      /\ \A j \in DOMAIN nodes : NoteIdOf(nodes[j].path) = id => j = i
                      /\ MapHas(footnotes, id)
                      /\ Len(MapGet(footnotes, id, Null)) > Len(OwnNoteText(nodes[i].path, f.file.doc.mark))

\* The lines of the frame that the loop of addSections pushed, those it
\* pushed for section i, and of these the ones pushed by `by`.
BodyLines(f) == SelectSeq(f.mdLines, LAMBDA l : l.by \in {"heading", "epigraph", "item", "image"})
SectionLines(f, i) == SelectSeq(BodyLines(f), LAMBDA l : l.sec = i)
SectionLinesBy(f, i, by) == SelectSeq(SectionLines(f, i), LAMBDA l : l.by = by)

\* The entries of the table of contents of the frame.
TocOf(f) == SelectSeq(f.mdLines, LAMBDA l : l.by = "toc")

\* The body items of a section with a given tag.
ItemsOf(sec, tag) == SelectSeq(sec.paragraphs, LAMBDA n : n.tag = tag)

\* The number of lines the epigraphs of a section give: two markers and one
\* line per paragraph for each.
RECURSIVE EpigraphLineCount(_)
EpigraphLineCount(epigraphs) ==
    IF Len(epigraphs) = 0 THEN 0
    ELSE 2 + Len(QueryAll(epigraphs[1], "p")) + EpigraphLineCount(Tail(epigraphs))

\* C9: the table of contents holds exactly one entry for every flattened
\* section whose trimmed title is not empty, in flattened order, and none
\* for a section without title; the lines of every section stand at its
\* flattened position and are its heading line, its epigraph lines and its
\* body items (a line per paragraph, which for a paragraph of plain text is
\* its trimmed text, and an embed per image item that resolves to a payload
\* that is not blank); the heading line of a section without
\* title is the blank separator.
C9_EmptyTitleSections ==
    \A c \in Calls :
        LET f    == conv[c]
            flat == f.flatSections
            toc  == TocOf(f)
            body == BodyLines(f)
        IN  SectionsWritten(f) =>
                /\ {toc[n].sec : n \in DOMAIN toc} = {i \in DOMAIN flat : Len(Trim(flat[i].title)) > 0}
                /\ \A m, n \in DOMAIN toc : m < n => toc[m].sec < toc[n].sec
                /\ \A n \in DOMAIN toc : toc[n].text = TocEntry(Trim(flat[toc[n].sec].title))
                /\ \A m, n \in DOMAIN body : m < n => body[m].sec <= body[n].sec
                /\ \A i \in DOMAIN flat :
                      LET lines == SectionLines(f, i)
                          ne    == EpigraphLineCount(flat[i].epigraphs)
                          ps    == ItemsOf(flat[i], "p")
                          items == SectionLinesBy(f, i, "item")
                      IN  /\ Len(lines) >= 1 /\ lines[1].by = "heading"
                          /\ Len(SectionLinesBy(f, i, "heading")) = 1
                          /\ Len(Trim(flat[i].title)) = 0 <=> lines[1].text = <<"\n">>
                          /\ \A n \in 2..(1 + ne) : lines[n].by = "epigraph"
                          /\ Len(SectionLinesBy(f, i, "epigraph")) = ne
                          /\ Len(items) = Len(ps)
                          /\ \A n \in DOMAIN ps :
                                (\A k \in DOMAIN ps[n].kids : ps[n].kids[k].tag = "#text")
                                    => items[n].text = Trim(textContent(ps[n]))
                          /\ Len(SectionLinesBy(f, i, "image"))
                                = Len(SelectSeq(ItemsOf(flat[i], "image"),
                                                LAMBDA n : SectionImageData(n, f.imageMap) # NoImage))

\* A book was converted in which a section without title that has an
\* epigraph and a paragraph stands between two sections with titles.
C9_Witness ==
    \E c \in Calls :
        LET f    == conv[c]
            flat == f.flatSections
        IN  /\ Converted(f)
            /\ \E i, j, k \in DOMAIN flat :
                  /\ i < j /\ j < k
                  /\ Len(flat[i].title) > 0 /\ Len(flat[k].title) > 0
                  /\ Len(flat[j].title) = 0 /\ Len(flat[j].epigraphs) > 0
                  /\ SectionLines(f, j)[1].text = <<"\n">>
                  /\ Len(SectionLines(f, j)) = 5
            /\ Len(TocOf(f)) < Len(flat)

\* The number of "#" characters of a text.
Hashes(text) == Cardinality({n \in DOMAIN text : text[n] = "#"})

\* C10: the heading line of a flattened section with a title, at depth d of
\* the section tree, is a line break, min(d + 1, 6) "#" characters, a space
\* and the title; the number of "#" is at least 2 and at most 6.
C10_HeadingLevel ==
    \A c \in Calls :
        LET f    == conv[c]
            flat == f.flatSections
        IN  SectionsWritten(f) =>
                \A i \in DOMAIN flat :
                    LET h     == SectionLines(f, i)[1].text
                        d     == Len(PathOf(flat[i]))
                        title == Trim(flat[i].title)
                        n     == IF d + 1 < 6 THEN d + 1 ELSE 6
                    IN  Len(title) > 0 =>
                            /\ d >= 1
                            /\ h = <<"\n">> \o [m \in 1..n |-> "#"] \o <<" ">> \o title
                            /\ Hashes(h) = n
                            /\ Hashes(h) >= 2 /\ Hashes(h) <= 6

\* A book was converted that has sections with titles at depth 1, at depth 5
\* and at depth 6, the last two with six "#" characters in their heading.
C10_Witness ==
    \E c \in Calls :
        LET f    == conv[c]
            flat == f.flatSections
        IN  /\ Converted(f)
            /\ \E i, j, k \in DOMAIN flat :
                  /\ Len(PathOf(flat[i])) = 1 /\ Hashes(SectionLines(f, i)[1].text) = 2
                  /\ Len(PathOf(flat[j])) = 5 /\ Hashes(SectionLines(f, j)[1].text) = 6
                  /\ Len(PathOf(flat[k])) = 6 /\ Hashes(SectionLines(f, k)[1].text) = 6

\* The identifiers of the note sections of a book that make a footnote
\* entry: those that are present and not empty.
NoteIds(d) ==
    IF d.hasNotes
    THEN {NoteIdOf(n.path) : n \in Range(NoteNodes(d.notes, d.noteRoot))} \ {Null, <<>>}
    ELSE {}

\* C11: the output of a document without notes body, or whose notes body
\* has no section with a non-empty id, holds no footnotes heading and no
\* definition line; otherwise the lines end with the footnotes heading
\* followed by exactly one definition line for each entry of the table.
C11_FootnoteBlockPresence ==
    \A c \in Calls :
        LET f     == conv[c]
            ids   == NoteIds(f.file.doc)
            block == FootnoteBlock(f)
            n     == Len(f.mdLines)
        IN  WroteFootnotes(f) =>
                /\ ids = {} =>
                      /\ block = <<>>
                      /\ \A i \in DOMAIN f.mdLines : f.mdLines[i].text # FootnotesHeading
                /\ ids # {} =>
                      /\ Len(block) = Cardinality(ids) + 1
                      /\ block = SubSeq(f.mdLines, n - Cardinality(ids), n)
                      /\ block[1].by = "fnhead" /\ block[1].text = FootnotesHeading
                      /\ \A i \in 2..Len(block) : block[i].by = "fn"
                      /\ \A id \in ids :
                            Cardinality({i \in 2..Len(block) :
                                            StartsWith(block[i].text,
                                                       <<"[", "^">> \o id \o <<"]", ":", " ">>)}) = 1

\* A book was converted whose notes body has sections, none with a
\* non-empty id: its lines hold no footnote block.
C11_Witness ==
    \E c \in Calls :
        LET f == conv[c]
        IN  /\ Converted(f)
            /\ f.file.doc.hasNotes /\ Len(f.file.doc.notes) = 2
            /\ NoteIds(f.file.doc) = {}
            /\ FootnoteBlock(f) = <<>>

\* The links of the book that the converter reads as footnote references:
\* those whose href or xlink:href starts with "#".
IsFootnoteLink(l) == l.attr \in {"href", "xlink:href"} /\ Len(l.href) > 0 /\ l.href[1] = "#"

\* The line of the paragraph <p>see <a href="#X">..</a>.</p>.
ReferenceLine(X) == <<"s", "e", "e", " ", "[", "^">> \o X \o <<"]", ".">>

\* The texts of the lines that `by` pushed into the buffer of the frame.
TextsBy(f, by) == {f.mdLines[i].text : i \in {j \in DOMAIN f.mdLines : f.mdLines[j].by = by}}

\* C12: in a converted document, a paragraph with a link whose href (or
\* xlink:href) is "#X" is written with the reference [^X] in place of the
\* link, the text of the link dropped, and a note section of the notes body
\* with the identifier X and the single paragraph T is written as the
\* definition line "[^X]: T": reference and definition carry the same label.
C12_FootnoteReferences ==
    \A c \in Calls :
        LET f     == conv[c]
            d     == f.file.doc
            nodes == NoteNodes(d.notes, d.noteRoot)
            items == SectionLinesBy(f, 1, "item")
        IN  (Converted(f) /\ Len(d.links) > 0) =>
                /\ Len(items) = 1 + Len(d.links) + Len(SelectSeq(d.tail, LAMBDA it : it.kind = "p"))
                /\ \A i \in DOMAIN d.links :
                      IsFootnoteLink(d.links[i])
                          => items[i + 1].text = ReferenceLine(Tail(d.links[i].href))
                /\ \A i \in DOMAIN nodes :
                      LET id == NoteIdOf(nodes[i].path)
                          ps == NoteParagraphs(nodes[i].kids, nodes[i].path, d.mark)
                      IN  (Truthy(id) /\ Len(ps) = 1
                           /\ \A j \in DOMAIN nodes : NoteIdOf(nodes[j].path) = id => j = i)
                              => <<"[", "^">> \o id \o <<"]", ":", " ">> \o ps[1]
                                     \in TextsBy(f, "fn")

\* A document was converted in which a paragraph links to "#n1" and the
\* notes body holds the note n1: the reference and the definition are written.
C12_Witness ==
    \E c \in Calls :
        LET f == conv[c]
            d == f.file.doc
        IN  /\ Converted(f)
            /\ \E i \in DOMAIN d.links :
                  d.links[i] = Link("xlink:href", <<"#", "n", "1">>, <<"*">>)
            /\ ReferenceLine(<<"n", "1">>) \in TextsBy(f, "item")
            /\ <<"[", "^", "n", "1", "]", ":", " ", "t", "1">> \in TextsBy(f, "fn")

\* The names of the authors of the header of the book: the trimmed first and
\* last name of each with a space between them, or the one there is; an
\* author without a name is left out.
HeaderAuthors(d) ==
    LET Part(x) == IF x = Null THEN <<>> ELSE Trim(x)
        Name(a) == IF Len(Part(a[1])) > 0 /\ Len(Part(a[2])) > 0
                   THEN Part(a[1]) \o <<" ">> \o Part(a[2])
                   ELSE Part(a[1]) \o Part(a[2])
    IN  SelectSeq([i \in DOMAIN d.authors |-> Name(d.authors[i])], LAMBDA n : Len(n) > 0)

HeaderTitle(d) == IF d.title = Null THEN <<>> ELSE Trim(d.title)

RECURSIVE AuthorList(_)
\* "n1", "n2", ..
AuthorList(names) ==
    IF Len(names) = 0 THEN <<>>
    ELSE <<"\"">> \o names[1] \o <<"\"">>
         \o (IF Len(names) > 1 THEN <<",", " ">> \o AuthorList(Tail(names)) ELSE <<>>)

\* The author names as they stand in the name of the output: the first two,
\* and "et al." for the others.
AuthorsInName(names) ==
    names[1]
    \o (IF Len(names) >= 2 THEN <<",", " ">> \o names[2] ELSE <<>>)
    \o (IF Len(names) > 2 THEN <<" ", "e", "t", " ", "a", "l", ".">> ELSE <<>>)

\* The text without the characters a file name cannot hold.
Legal(text) == SelectSeq(text, LAMBDA ch : ch \notin {"\\", "/", ":", "*", "?", "\"", "<", ">", "|"})

\* The base name of a path: what stands after the last "/" and before ".md".
BaseNameOf(path) ==
    LET slashes == {i \in DOMAIN path : path[i] = "/"}
        from    == IF slashes = {} THEN 1 ELSE (CHOOSE i \in slashes : \A j \in slashes : j <= i) + 1
    IN  SubSeq(path, from, Len(path) - 3)

\* C13: for a converted document whose header has a title that is not empty
\* and at least one author with a name, the front matter holds exactly one
\* authors line, which lists every author name (first and last name joined
\* by one space) in the order of the header, and the output file is created
\* under a base name made of the author names and the title (without the
\* characters illegal in a file name), not under the base name of the source.
C13_AuthorsAndBaseName ==
    \A c \in Calls :
        LET f       == conv[c]
            d       == f.file.doc
            names   == HeaderAuthors(d)
            front   == SelectSeq(f.mdLines, LAMBDA l : l.by = "front")
            authors == SelectSeq(front, LAMBDA l : StartsWith(l.text, <<"a", "u", "t", "h", "o", "r", "s", ":">>))
            creates == CallsOf(c, "create")
        IN  (Converted(f) /\ Len(HeaderTitle(d)) > 0 /\ Len(names) > 0) =>
                /\ Len(authors) = 1
                /\ authors[1].text
                       = <<"a", "u", "t", "h", "o", "r", "s", ":", " ", "[">> \o AuthorList(names) \o <<"]">>
                /\ Len(creates) = 1
                /\ BaseNameOf(creates[1].path)
                       = Legal(AuthorsInName(names) \o <<" ", EnDash, " ">> \o HeaderTitle(d))
                /\ BaseNameOf(creates[1].path) # f.file.basename

\* A book with the title "C?" and the authors "A K" and "T:" was converted.
C13_Witness ==
    \E c \in Calls :
        LET f == conv[c]
            d == f.file.doc
        IN  /\ Converted(f)
            /\ HeaderTitle(d) = <<"C", "?">>
            /\ HeaderAuthors(d) = <<<<"A", " ", "K">>, <<"T", ":">>>>
            /\ BaseNameOf(CallsOf(c, "create")[1].path)
                  = <<"A", " ", "K", ",", " ", "T", " ", EnDash, " ", "C">>

\* The create calls of call c that the vault has not answered yet.
Outstanding(c) == Len(CreateCalls(c)) - conv[c].settled

\* C14: within one conversion the storage writes (folder creation, binary
\* write, text write) are issued strictly one at a time: in no state has a
\* conversion two writes outstanding, and the write outstanding, if any, is
\* the last one issued and the one the conversion is suspended on.
C14_OneWriteAtATime ==
    \A c \in Calls :
        LET f      == conv[c]
            writes == CreateCalls(c)
        IN  /\ Outstanding(c) \in {0, 1}
            /\ Outstanding(c) = 1 =>
                  /\ f.io.st = "pending"
                  /\ f.io.op = writes[Len(writes)].op /\ f.io.path = writes[Len(writes)].path
                  /\ f.pc \in {"ensureImageFolder", "createBinary", "ensureOutputFolder", "create"}

\* A conversion has issued a folder creation, three binary writes and the
\* text write, and the last of them is outstanding.
C14_Witness ==
    \E c \in Calls :
        /\ Len(CallsOf(c, "createFolder")) = 1
        /\ Len(CallsOf(c, "createBinary")) = 3
        /\ Len(CallsOf(c, "create")) = 1
        /\ Outstanding(c) = 1

RECURSIVE NodeAt(_, _)
\* The section at `path` of a forest of parsed sections.
NodeAt(sections, path) ==
    IF Len(path) = 1 THEN sections[path[1]]
    ELSE NodeAt(sections[path[1]].children, Tail(path))

\* C15: every parsed section has a depth of at least 1; the root sections of
\* every main body have depth 1 and a child has the depth of its parent plus
\* one, so that the depth of a section is the length of its path from the
\* body; the entries of the flattened list are the nodes of the trees, with
\* their depth unchanged.
C15_DepthInvariant ==
    \A c \in Calls :
        LET f     == conv[c]
            flat  == f.flatSections
            roots == RootSections(Content(f.file.doc))
        IN  Flattened(f) =>
                /\ \A r \in DOMAIN roots : roots[r].level = 1
                /\ \A i \in DOMAIN flat :
                      /\ flat[i].level >= 1
                      /\ flat[i].level = Len(PathOf(flat[i]))
                      /\ \A k \in DOMAIN flat[i].children :
                            flat[i].children[k].level = flat[i].level + 1
                      /\ flat[i] = NodeAt(roots, PathOf(flat[i]))

\* A document with two main bodies was flattened in which the root section
\* of the second body has a grandchild.
C15_Witness ==
    \E c \in Calls :
        LET f    == conv[c]
            flat == f.flatSections
        IN  /\ Flattened(f) /\ f.file.doc.split = 1
            /\ \E i \in DOMAIN flat : PathOf(flat[i]) = <<2, 1, 1>> /\ flat[i].level = 3

\* The place of a line in the order of the blocks: the block, the section,
\* and the part of the section.
BlockOf(l) ==
    CASE l.by = "front"    -> <<1, 0, 0>>
      [] l.by = "cover"    -> <<2, 0, 0>>
      [] l.by = "contents" -> <<3, 0, 0>>
      [] l.by = "toc"      -> <<4, 0, 0>>
      [] l.by = "heading"  -> <<5, l.sec, 1>>
      [] l.by = "epigraph" -> <<5, l.sec, 2>>
      [] l.by \in {"item", "image"} -> <<5, l.sec, 3>>
      [] l.by = "fnhead"   -> <<6, 0, 0>>
      [] l.by = "fn"       -> <<7, 0, 0>>

\* a comes before b, or with b, in the order of the blocks.
NotAfter(a, b) ==
    \/ a[1] < b[1]
    \/ a[1] = b[1] /\ a[2] < b[2]
    \/ a[1] = b[1] /\ a[2] = b[2] /\ a[3] <= b[3]

\* C16: the lines of the output buffer stand in the order of the blocks:
\* front matter, cover embed, contents heading, table of contents, then per
\* section in flattened order its heading (or blank line), its epigraphs and
\* its items, then the footnotes heading and the definitions.  No line of a
\* later block is pushed before a line of an earlier one; the buffer of a
\* completed conversion opens with the front matter, has one contents
\* heading and one heading line per flattened section.
C16_BlockOrder ==
    \A c \in Calls :
        LET f  == conv[c]
            md == f.mdLines
        IN  /\ \A i, j \in DOMAIN md : i < j => NotAfter(BlockOf(md[i]), BlockOf(md[j]))
            /\ Converted(f) =>
                  /\ md[1].by = "front" /\ md[1].text = <<"-", "-", "-">>
                  /\ Cardinality({i \in DOMAIN md : md[i].by = "contents"}) = 1
                  /\ Cardinality({i \in DOMAIN md : md[i].by = "cover"}) <= 1
                  /\ \A si \in DOMAIN f.flatSections :
                        Cardinality({i \in DOMAIN md : md[i].by = "heading" /\ md[i].sec = si}) = 1
                  /\ \A i \in DOMAIN md : md[i].by = "heading" => md[i].sec \in DOMAIN f.flatSections

\* A conversion was completed whose buffer holds a line of every block.
C16_Witness ==
    \E c \in Calls :
        LET f == conv[c]
        IN  /\ Converted(f)
            /\ \A by \in {"front", "cover", "contents", "toc", "heading", "epigraph",
                         "item", "image", "fnhead", "fn"} :
                  \E i \in DOMAIN f.mdLines : f.mdLines[i].by = by

\* The base name of the output of a book: author names and title, or the
\* title alone, or the base name of the source when the header has neither.
OutputBaseName(file) ==
    LET names == HeaderAuthors(file.doc)
        title == HeaderTitle(file.doc)
    IN  Legal(IF Len(names) > 0 THEN AuthorsInName(names) \o <<" ", EnDash, " ">> \o title
              ELSE IF Len(title) > 0 THEN title
              ELSE file.basename)

\* The n-th name tried for an output: base.md, base_1.md, base_2.md, ..
\* in the output folder, if one is set.
OutputPath(base, n) ==
    (IF Len(Trim(settings.outputFolderPath)) > 0 THEN Trim(settings.outputFolderPath) \o <<"/">>
     ELSE <<>>)
    \o base \o (IF n = 0 THEN <<>> ELSE <<"_", Digits[n + 1]>>) \o <<".", "m", "d">>

\* C17: when conversions run one after another, the path handed to
\* vault.create is not in the vault at that moment and the call is not
\* rejected; the path is the first free one of base.md, base_1.md,
\* base_2.md, .. in the output folder, where base is made of the authors and
\* the title of the header without the characters illegal in a path, or is
\* the base name of the source when the header has neither.
C17_OutputPathFree ==
    \A c \in Calls :
        LET f       == conv[c]
            base    == OutputBaseName(f.file)
            creates == CallsOf(c, "create")
        IN  /\ \A k \in DOMAIN creates :
                  /\ ~creates[k].existed
                  /\ \E n \in 0..9 : creates[k].path = OutputPath(base, n)
            /\ Len(creates) > 0 => f.pc # "failed"
            /\ (f.pc = "create" /\ f.io.st = "pending") =>
                  /\ f.io.path \notin DOMAIN vault
                  /\ \E n \in 0..9 :
                        /\ f.io.path = OutputPath(base, n)
                        /\ \A m \in 0..(n - 1) : OutputPath(base, m) \in DOMAIN vault

\* The same document is converted for the second time into a vault that held
\* an output of that name before: the output is created as b_2.md.
C17_Witness ==
    \E c, o \in Calls :
        /\ c # o /\ conv[c].file = conv[o].file /\ Converted(conv[o])
        /\ conv[c].pc = "create" /\ conv[c].io.st = "pending"
        /\ conv[c].io.path = <<"b", "_", "2", ".", "m", "d">>

\* The text holds the characters of `part` in a row.
Contains(text, part) ==
    \E i \in 1..(Len(text) - Len(part) + 1) : SubSeq(text, i, i + Len(part) - 1) = part

\* The call of handleSaveQuote has just ended with the quote saved.
QuoteSaved ==
    /\ quote.pc = "idle" /\ Len(quote.notices) > 0
    /\ quote.notices[Len(quote.notices)] = "Quote saved"

\* C18: every quote saved carries a working reference: when a call of
\* handleSaveQuote has ended with the quote saved, the quotes file holds the
\* entry of the quote, the entry holds a source link to a block id of the
\* note, and the note in the editor holds the marker "^id" of that block id
\* at the start of a line, also when the selection held a marker before.
C18_QuoteReferenceWorks ==
    QuoteSaved =>
        LET s == quote.saved[Len(quote.saved)]
        IN  /\ Contains(vault[s.path].data, s.entry)
            /\ Contains(s.entry, SourceLink(editor.basename, s.blockId))
            /\ Contains(editor.text, BlockMarker(s.blockId))

\* The document of the frame was parsed: its images are in the registry.
Extracted(f) == f.pc \notin {"idle", "read"} /\ ~f.file.doc.malformed

\* The identifier under which a binary block is looked up.
LookupKey(b) == IF b.id = Null THEN <<>> ELSE ToLowerCase(b.id)

\* C19: the image registry holds exactly one record per binary block of the
\* document: it has as many entries as the document has binary elements, and
\* the lookup of the lower-cased identifier of a block returns the content
\* type and the payload of that block, also for blocks whose identifiers
\* differ in case only and for blocks without identifier.
C19_OneRecordPerBinary ==
    \A c \in Calls :
        LET f    == conv[c]
            bins == f.file.doc.bins
        IN  Extracted(f) =>
                /\ Len(f.imageMap) = Len(bins)
                /\ \A i \in DOMAIN bins :
                      LET img == ImageGet(f.imageMap, LookupKey(bins[i]))
                      IN  /\ img # NoImage
                          /\ img.contentType = (IF bins[i].ctype = Null
                                                THEN <<"i", "m", "a", "g", "e", "/", "j", "p", "e", "g">>
                                                ELSE bins[i].ctype)
                          /\ img.data = bins[i].data

\* The identifiers under which the binary blocks of the book are looked up.
Keys(d) == {LookupKey(d.bins[i]) : i \in DOMAIN d.bins}

\* The key that the cover reference of the book resolves to; Null when it
\* does not resolve: the target without "#" in lower case, or its part
\* before the first dot.
CoverKey(d) ==
    LET key == FullKey(d.cover)
    IN  IF Len(key) = 0 THEN Null
        ELSE IF key \in Keys(d) THEN key
        ELSE IF Includes(key, ".") /\ SplitFirst(key, ".") \in Keys(d) THEN SplitFirst(key, ".")
        ELSE Null

\* The image item with the target r resolves in the registry.
ItemResolves(d, r) == Len(FullKey(r)) > 0 /\ FullKey(r) \in Keys(d)

\* The payload of the last binary block looked up by key decodes.
Decodes(d, key) ==
    LET last == CHOOSE i \in DOMAIN d.bins :
                    /\ LookupKey(d.bins[i]) = key
                    /\ \A j \in DOMAIN d.bins : LookupKey(d.bins[j]) = key => j <= i
    IN  base64ToUint8Array(Trim(d.bins[last].data)) # DecodeError

\* The targets of the image items of the book, in document order.
ImageRefs(d) ==
    d.refs \o [k \in DOMAIN SelectSeq(d.tail, LAMBDA it : it.kind = "image") |->
                  SelectSeq(d.tail, LAMBDA it : it.kind = "image")[k].text]

\* The references of the book that resolve do so to payloads that decode.
ResolvedDecode(d) ==
    /\ (d.cover # Null /\ CoverKey(d) # Null) => Decodes(d, CoverKey(d))
    /\ \A r \in Range(ImageRefs(d)) : ItemResolves(d, r) => Decodes(d, FullKey(r))

\* C20: in the conversion of a document with a main body, a cover reference
\* that does not resolve in the registry gives no cover embed and a section
\* image reference that does not resolve gives no embed line; no binary is
\* written for them (when no reference resolves, no image folder and no
\* binary is created at all); the conversion does not fail on them and ends
\* with the output file created from all the lines of the buffer, which
\* hold a heading line for every section and a line for every paragraph.
C20_UnresolvedSkipped ==
    \A c \in Calls :
        LET f        == conv[c]
            d        == f.file.doc
            resolved == {i \in DOMAIN ImageRefs(d) : ItemResolves(d, ImageRefs(d)[i])}
            covers   == IF d.cover # Null /\ CoverKey(d) # Null THEN 1 ELSE 0
            by(tag)  == {i \in DOMAIN f.mdLines : f.mdLines[i].by = tag}
            creates  == CallsOf(c, "create")
        IN  Flattened(f) =>
                /\ covers = 0 => by("cover") = {}
                /\ Cardinality(by("image")) <= Cardinality(resolved)
                /\ Len(CallsOf(c, "createBinary")) <= covers + Cardinality(resolved)
                /\ (covers = 0 /\ resolved = {}) =>
                      /\ CallsOf(c, "createBinary") = <<>>
                      /\ \A k \in DOMAIN f.calls :
                            f.calls[k].op = "createFolder" => f.calls[k].path = OutputFolder
                /\ ResolvedDecode(d) =>
                      /\ f.pc # "failed"
                      /\ f.pc = "done" =>
                            /\ Converted(f)
                            /\ Len(creates) = 1
                            /\ creates[1].path \in DOMAIN vault
                            /\ vault[creates[1].path].data = FinalText(f.mdLines)
                            /\ Cardinality(by("heading")) = NodeCount(d.shape)
                            /\ Cardinality(by("item"))
                                   = NodeCount(d.shape) + Len(d.links)
                                     + Len(SelectSeq(d.tail, LAMBDA it : it.kind = "p"))

\* A book with binaries was converted whose cover reference and whose image
\* item do not resolve: nothing was written but the output.
C20_Witness ==
    \E c \in Calls :
        LET f == conv[c]
            d == f.file.doc
        IN  /\ Converted(f)
            /\ d.cover = <<"#", "x">> /\ d.refs = <<<<"#", "x">>>> /\ Len(d.bins) = 2
            /\ \A k \in DOMAIN f.calls : f.calls[k].op \in {"read", "create"}
            /\ \E p \in DOMAIN vault : vault[p].data = FinalText(f.mdLines)

\* The texts of the paragraphs that are children of the title elements, in
\* document order.
TitleParagraphs(titles) ==
    Flat([t \in DOMAIN titles |->
            [k \in DOMAIN SelectSeq(titles[t], LAMBDA part : part.kind = "p") |->
                SelectSeq(titles[t], LAMBDA part : part.kind = "p")[k].text]])

\* The full text of a title element: the texts of its parts in a row.
TitleText(title) == Flat([k \in DOMAIN title |-> title[k].text])

\* The document of the frame was flattened and its first section has title
\* elements of its own.
TitlesParsed(f) == Flattened(f) /\ f.file.doc.titles # NoTitles /\ Len(f.flatSections) > 0

\* C21, as the specification states it: the title of a section is the
\* trimmed text of the first paragraph that is a child of a title child when
\* there is one; otherwise the trimmed full text of the first title child
\* when there is one; otherwise empty.
C21_FirstMatchWins ==
    \A c \in Calls :
        LET f      == conv[c]
            titles == f.file.doc.titles
            ps     == TitleParagraphs(titles)
        IN  TitlesParsed(f) =>
                f.flatSections[1].title =
                    (IF Len(ps) > 0 THEN Trim(ps[1])
                     ELSE IF Len(titles) > 0 THEN Trim(TitleText(titles[1]))
                     ELSE <<>>)

\* C21, amended: the title of a section is the trimmed text of the first
\* paragraph that is a child of a title child when that text is not empty;
\* otherwise the trimmed full text of the first title child when that text
\* is not empty; otherwise empty.  A rule that matches without text gives
\* way to the next one.
C21_FirstTextWins ==
    \A c \in Calls :
        LET f      == conv[c]
            titles == f.file.doc.titles
            ps     == TitleParagraphs(titles)
        IN  TitlesParsed(f) =>
                f.flatSections[1].title =
                    (IF Len(ps) > 0 /\ Len(Trim(ps[1])) > 0 THEN Trim(ps[1])
                     ELSE IF Len(titles) > 0 THEN Trim(TitleText(titles[1]))
                     ELSE <<>>)

\* A section was parsed whose title element holds a blank paragraph and a
\* text node: its title is the text of the title element.
C21_Witness ==
    \E c \in Calls :
        LET f == conv[c]
        IN  /\ TitlesParsed(f)
            /\ f.file.doc.titles = <<<<[kind |-> "p", text |-> <<" ">>],
                                       [kind |-> "text", text |-> <<"x", " ">>]>>>>
            /\ f.flatSections[1].title = <<"x">>

RECURSIVE PreorderPaths(_, _)
\* The paths of the sections of a forest of section shapes, every section
\* before its nested sections and these before its next sibling.
PreorderPaths(kids, path) ==
    Flat([i \in DOMAIN kids |->
            <<Append(path, i)>> \o PreorderPaths(kids[i], Append(path, i))])

\* The paragraphs and images that are children of the section at `path` of
\* the book, in document order; the text of a paragraph with a link is left
\* open.
OwnItems(d, path) ==
    <<Item("p", <<"p">> \o PathLabel(path))>>
    \o (IF path = <<1>>
        THEN [k \in DOMAIN d.links |-> Item("p", Null)]
             \o [k \in DOMAIN d.refs |-> Item("image", d.refs[k])]
             \o d.tail
        ELSE <<>>)

\* The image item with the target r resolves to a payload that is not blank.
Shown(d, r) ==
    /\ ItemResolves(d, r)
    /\ LET last == CHOOSE i \in DOMAIN d.bins :
                       /\ LookupKey(d.bins[i]) = FullKey(r)
                       /\ \A j \in DOMAIN d.bins : LookupKey(d.bins[j]) = FullKey(r) => j <= i
       IN  Len(Trim(d.bins[last].data)) > 0

\* The lines of the body items of section i of the frame.
ItemLines(f, i) == SelectSeq(SectionLines(f, i), LAMBDA l : l.by \in {"item", "image"})

\* The body items of every section node are the paragraphs and images that
\* are children of its section, in document order.
OwnItemsOnly(f) ==
    LET d   == f.file.doc
        pre == PreorderPaths(d.shape, <<>>)
    IN  /\ Len(f.flatSections) = Len(pre)
        /\ \A i \in DOMAIN pre :
              LET own == OwnItems(d, pre[i])
                  got == f.flatSections[i].paragraphs
              IN  /\ Len(got) = Len(own)
                  /\ \A k \in DOMAIN own :
                        /\ got[k].tag = own[k].kind
                        /\ (own[k].kind = "p" /\ own[k].text # Null)
                               => Trim(textContent(got[k])) = Trim(own[k].text)
                        /\ own[k].kind = "image" => getAttribute(got[k], "l:href") = own[k].text

\* C22, as the specification states it: the body items of a section node
\* are the paragraphs and images that are children of its section, in
\* document order, and in a converted document every one of them is written
\* exactly once, at the position of the section that owns it.
C22_EveryItemOnce ==
    \A c \in Calls :
        LET f   == conv[c]
            d   == f.file.doc
            pre == PreorderPaths(d.shape, <<>>)
        IN  Flattened(f) =>
                /\ OwnItemsOnly(f)
                /\ Converted(f) =>
                      \A i \in DOMAIN pre :
                          LET own   == OwnItems(d, pre[i])
                              lines == ItemLines(f, i)
                          IN  /\ Len(lines) = Len(own)
                              /\ \A k \in DOMAIN own :
                                    lines[k].by = (IF own[k].kind = "p" THEN "item" ELSE "image")

\* C22, amended: the body items of a section node are the paragraphs and
\* images that are children of its section, in document order; in a
\* converted document every such paragraph is written exactly once and every
\* such image that resolves to a payload that is not blank is written exactly
\* once, in document order at the position of the section that owns them; an
\* image that does not resolve, or resolves to a blank payload, is not
\* written.
C22_OwnItemsRendered ==
    \A c \in Calls :
        LET f   == conv[c]
            d   == f.file.doc
            pre == PreorderPaths(d.shape, <<>>)
        IN  Flattened(f) =>
                /\ OwnItemsOnly(f)
                /\ Converted(f) =>
                      /\ \A i \in DOMAIN pre :
                            LET own   == SelectSeq(OwnItems(d, pre[i]),
                                                   LAMBDA it : it.kind = "p" \/ Shown(d, it.text))
                                lines == ItemLines(f, i)
                            IN  /\ Len(lines) = Len(own)
                                /\ \A k \in DOMAIN own :
                                      /\ lines[k].by = (IF own[k].kind = "p" THEN "item" ELSE "image")
                                      /\ (own[k].kind = "p" /\ own[k].text # Null)
                                             => lines[k].text = Trim(own[k].text)
                      /\ \A n \in DOMAIN f.mdLines :
                            f.mdLines[n].by \in {"item", "image"} => f.mdLines[n].sec \in DOMAIN pre

\* A book was converted whose first section holds a nested section and,
\* after it, a paragraph, an image that does not resolve and one that does:
\* the lines of the section are its three paragraphs and two embeds.
C22_Witness ==
    \E c \in Calls :
        LET f == conv[c]
            d == f.file.doc
        IN  /\ Converted(f)
            /\ d.shape = <<<<<<>>>>, <<>>>> /\ Len(d.tail) = 3 /\ Len(d.links) = 1
            /\ d.refs = <<<<"#", "I", "M">>>>
            /\ Len(ItemLines(f, 1)) = 5 /\ Len(ItemLines(f, 2)) = 1
            /\ [k \in 1..5 |-> ItemLines(f, 1)[k].by] = <<"item", "item", "image", "item", "image">>

\* The n-th name the image materializer tries for an image of the book of
\* the frame: base.ext, base_1.ext, base_2.ext, .. in the image folder of
\* the book.
ImagePath(f, image, n) ==
    settings.imageFolderPath \o <<"/">> \o f.file.basename \o <<"/">>
    \o BaseFileName(image) \o (IF n = 0 THEN <<>> ELSE <<"_", Digits[n + 1]>>)
    \o <<".">> \o Extension(image)

\* C23: the loop of the image materializer ends, after no more renamings
\* than the vault has paths, with the first free candidate of base.ext,
\* base_1.ext, base_2.ext, ..: the path handed to createBinary is not in the
\* vault and every candidate before it is.
C23_FirstFreeCandidate ==
    \A c \in Calls :
        LET f == conv[c]
        IN  (f.pc = "createBinary" /\ f.io.st = "pending") =>
                /\ f.io.path = f.filePath
                /\ f.io.path \notin DOMAIN vault
                /\ \E n \in 0..9 :
                      /\ n <= Cardinality(DOMAIN vault)
                      /\ f.io.path = ImagePath(f, f.image, n)
                      /\ \A m \in 0..(n - 1) : ImagePath(f, f.image, m) \in DOMAIN vault

\* An image is about to be written under its second renaming: the vault
\* holds the file of the first name and the file of the first renaming.
C23_Witness ==
    \E c \in Calls :
        LET f == conv[c]
        IN  /\ f.pc = "createBinary" /\ f.io.st = "pending"
            /\ f.io.path = ImagePath(f, f.image, 2)
            /\ ImagePath(f, f.image, 0) \in DOMAIN vault
            /\ ImagePath(f, f.image, 1) \in DOMAIN vault

\* The embed lines of the frame: one per image materialized and embedded.
EmbedLines(f) == SelectSeq(f.mdLines, LAMBDA l : l.by \in {"cover", "image"})

\* C24: creating the output file is the last storage write of a conversion
\* and is made at most once: when it is issued every earlier write of the
\* conversion has been answered and every image written has its embed line;
\* a conversion that fails at an earlier step (a payload that does not
\* decode, a folder or binary create that is rejected) never issues it, so
\* that a failed conversion with a create call failed on that very call.
C24_OutputCreatedLast ==
    \A c \in Calls :
        LET f       == conv[c]
            writes  == CreateCalls(c)
            creates == CallsOf(c, "create")
        IN  /\ Len(creates) <= 1
            /\ Len(creates) = 1 =>
                  /\ writes[Len(writes)].op = "create"
                  /\ f.settled >= Len(writes) - 1
                  /\ Len(EmbedLines(f)) = Len(CallsOf(c, "createBinary"))
                  /\ f.pc \in {"create", "done", "failed"}
            /\ Converted(f) => Len(creates) = 1 /\ creates[1].path \in DOMAIN vault
            /\ f.error \in {"atob", "createFolder", "createBinary"} => Len(creates) = 0
            /\ f.error = "create" => Len(creates) = 1
            /\ f.error # "none" <=> f.pc = "failed"

\* Two conversions over, one failed on a payload that does not decode and
\* created no output, the other with its image written before its output.
C24_Witness ==
    \E c, o \in Calls :
        /\ conv[c].error = "atob" /\ Len(CallsOf(c, "create")) = 0
        /\ Converted(conv[o])
        /\ Len(CallsOf(o, "createBinary")) > 0
        /\ CreateCalls(o)[Len(CreateCalls(o))].op = "create"

RECURSIVE EntriesOf(_, _)
\* The entries of the quotes saved to the file at `path`, in the order they
\* were saved, in one text.
EntriesOf(saved, path) ==
    IF saved = <<>> THEN <<>>
    ELSE (IF Head(saved).path = path THEN Head(saved).entry ELSE <<>>)
         \o EntriesOf(Tail(saved), path)

\* C25: saving a quote never loses earlier quotes: when a call of
\* handleSaveQuote has ended with the quote saved, also a call in which the
\* read of the quotes file failed, the quotes file ends with the entries of
\* all the quotes saved to it, in the order they were saved, and they come
\* after the header the file began with.
C25_NoQuoteLost ==
    QuoteSaved =>
        LET path    == quote.saved[Len(quote.saved)].path
            entries == EntriesOf(quote.saved, path)
            data    == vault[path].data
        IN  /\ Len(data) > Len(entries)
            /\ SubSeq(data, Len(data) - Len(entries) + 1, Len(data)) = entries
====
